---- MODULE Spec2Model ----
(***************************************************************************)
(* The scheduler of mercari_spy.py (main), with the pieces it drives: the  *)
(* known-products store and its persistence (load_known_products,          *)
(* save_known_products), the per-query search (search_mercari), the diff   *)
(* against the store and the alert loop (send_product_alert).              *)
(*                                                                         *)
(* A product dict is a record; a Python dict is a function whose DOMAIN is *)
(* its key set; a dict iterated in insertion order is a sequence of        *)
(* [id, product] entries.  A file is [exists, data, written]: `data` is    *)
(* the store being serialized and `written` says how much of its text has  *)
(* reached the file ("empty" after open(..., "w"), "partial" while         *)
(* json.dump is writing, "complete" once the file is closed).              *)
(***************************************************************************)
EXTENDS Integers, Sequences, FiniteSets, TLC

\* ---------------------------------------------------------------- bounds
\* Listing ids the feed can show are 1..MaxId.
MaxId == 2
\* run_count is capped: the cycle loop stops being followed after MaxCycles.
MaxCycles == 2
\* At most MaxSaveFailures calls of save_known_products fail with an I/O error.
MaxSaveFailures == 1
\* A results page shows at most MaxItems listing elements.
MaxItems == 2
\* The clock of the rate cache runs from 0 to MaxTime.
MaxTime == 6
\* The rate provider is asked at most MaxFetches times.
MaxFetches == 3
\* CONFIG["CURRENCY_RATE_UPDATE_INTERVAL_SECONDS"], in ticks of the clock.
CURRENCY_RATE_UPDATE_INTERVAL_SECONDS == 2
\* The number of border pixels of a decoded image.
BorderPixels == 100
\* CONFIG["CHECK_INTERVAL_MIN"] and CONFIG["CHECK_INTERVAL_MAX"], in seconds
CHECK_INTERVAL_MIN == 30
CHECK_INTERVAL_MAX == 31

\* ------------------------------------------------------ program constants
\* alert_delay = 3 (seconds slept before every alert)
alert_delay == 3

\* CONFIG["WHITE_BG_BORDER_THRESHOLD"] (0.95), in percent
WHITE_BG_BORDER_THRESHOLD == 95

\* sleep_time = 10 after a cycle that overran its interval
overrun_sleep_time == 10

\* wait_time = 15 of apply_sort_by_newest_mercari
wait_time == 15

\* max_len = 4096 of log_message, the most characters of one text call
max_len == 4096

\* The characters of an alert besides the query and the title, of a logged
\* text besides the query, and of the text with the image URL.
alert_fixed_len == 120
log_fixed_len == 40
image_url_len == 60

\* search_queries.txt as loaded at import time: a fixed, ordered list.
SEARCH_QUERIES == <<"q1", "q2">>

Ids == 1..MaxId
Queries == {SEARCH_QUERIES[i] : i \in DOMAIN SEARCH_QUERIES}

\* ------------------------------------------------------------ dict helpers
\* d[key] = v on a dict
Put(d, key, v) == [x \in (DOMAIN d) \cup {key} |-> IF x = key THEN v ELSE d[x]]

\* The set of ids of a sequence of [id, product] entries.
IdsOf(entries) == {entries[i].id : i \in DOMAIN entries}

\* ------------------------------------------------------------------ files
NoFile == [exists |-> FALSE, data |-> <<>>, written |-> "empty"]
CompleteFile(store) == [exists |-> TRUE, data |-> store, written |-> "complete"]

\* The copy written with every field of the record.
StripProductKeepsPath(p) == p
\* data_copy = item_data.copy(); data_copy.pop('screenshot_path', None)
StripProduct(p) == [f \in (DOMAIN p) \ {"screenshot_path"} |-> p[f]]

\* products_to_save of save_known_products: every query, every item, stripped.
products_to_save(known) ==
  [q \in DOMAIN known |-> [i \in DOMAIN known[q] |-> StripProduct(known[q][i])]]

\* load_known_products: the parsed file, or {} when the file is missing,
\* does not decode (a partial text) or cannot be read (read_ok = FALSE).
load_known_products(f, read_ok) ==
  IF f.exists /\ f.written = "complete" /\ read_ok THEN f.data ELSE <<>>

\* main, before the loop: every configured query gets an entry.
InitQueries(known) ==
  [q \in (DOMAIN known) \cup Queries |-> IF q \in DOMAIN known THEN known[q] ELSE <<>>]

\* The store files the process can find at startup.
InitialFiles ==
  { NoFile,
    CompleteFile(<<>>),
    CompleteFile(SEARCH_QUERIES[1] :> (1 :> [found_time |-> 0])) }

VARIABLES
  pc,                      \* position of main's control
  known_products,          \* the in-memory store: query -> id -> product
  file,                    \* KNOWN_PRODUCTS_FILE
  temp_file,               \* KNOWN_PRODUCTS_FILE + ".tmp"
  driver,                  \* "None" | "open" | "quit"
  run_count,               \* cycles started
  query_idx,               \* index in SEARCH_QUERIES of the query of the pass
  current_products,        \* result of search_mercari, in extraction order
  new_products_for_query,  \* the diff, in the same order
  pos,                     \* position of the alert loop in new_products_for_query
  caller,                  \* who called save_known_products: "loop" | "critical"
  attempts,                \* log: the text alerts of this pass, [id, outcome]
  since_alert,             \* seconds slept since the last text alert (capped)
  last_gap,                \* since_alert as it was at the last text alert
  alert_count,             \* log: text alerts ever attempted per <<query, id>>
  save_calls,              \* log: save_known_products calls in this cycle
  known_before,            \* log: known_products as the diff of this pass saw it
  file_before,             \* log: file as the save in progress found it
  save_failures,           \* log: save_known_products calls that ended in its except
  search_log,              \* log: how the last search_mercari call went
  stop_reason,             \* the exception that ended main's try block, or "none"
  critical_report,         \* the critical-error report: "none" | "sent" | "failed"
  stop_notice,             \* the notice sent by `except KeyboardInterrupt`, likewise
  JPY_TO_EUR_RATE,         \* the cached rate, in 1/10000 euro per yen; None = 0
  RATE_LAST_UPDATED,       \* time of the fetch that set the cached rate
  clock,                   \* time.time()
  rate_log,                \* log of the calls of get_jpy_to_eur_rate
  item_count,              \* len(item_elements) of the extraction under way
  item_i,                  \* elements of it taken by the loop so far
  filter_enabled,          \* CONFIG["FILTER_WHITE_BACKGROUNDS"]
  product_id,              \* locals of the loop body of extract_products_mercari
  link,
  title,
  price,
  item_image,
  screenshot_path,
  is_white_bg,
  thumb,                   \* div.merItemThumbnail of the element, once looked up
  products,                \* the result being built, in insertion order
  processed_count,
  stored_count,
  item_log,                \* log: how the element under way was handled
  start_cycle_time,        \* main: time.time() at the start of the cycle
  check_interval,          \* main: the interval drawn at the end of the cycle
  sleep_time,              \* main: what the cycle sleeps at its end
  sort_state,              \* where apply_sort_by_newest_mercari stands in the pass
  checks,                  \* log: the checks search_mercari has made in the pass, and
                           \* whether it has called the extraction
  sort_log,                \* log: what apply_sort_by_newest_mercari has done in the pass
  sleep_log,               \* log: the last sleep of main between passes and cycles
  alert_env,               \* what one call of send_product_alert meets
  message_len,             \* len(message) of send_product_alert, 0 before it is built
  transport_calls          \* log: the calls made on telegram_bot

vars == <<pc, known_products, file, temp_file, driver, run_count, query_idx,
          current_products, new_products_for_query, pos, caller, attempts,
          since_alert, last_gap, alert_count, save_calls, known_before,
          file_before, save_failures, search_log, stop_reason, critical_report,
          stop_notice,
          JPY_TO_EUR_RATE, RATE_LAST_UPDATED, clock, rate_log, item_count, item_i,
          filter_enabled, product_id, link, title, price, item_image,
          screenshot_path, is_white_bg, thumb, products, processed_count,
          stored_count, item_log, start_cycle_time, check_interval, sleep_time,
          sort_state, checks, sort_log, sleep_log, alert_env, message_len,
          transport_calls>>

\* groups for UNCHANGED
disk == <<file, temp_file, file_before, save_failures>>
pass == <<current_products, new_products_for_query, pos, known_before>>
alerts == <<attempts, since_alert, last_gap, alert_count>>
trail == <<search_log, stop_reason, critical_report, stop_notice>>
rates == <<JPY_TO_EUR_RATE, RATE_LAST_UPDATED, clock, rate_log>>
locals == <<product_id, link, title, price, item_image, screenshot_path,
            is_white_bg, thumb>>
tally == <<products, processed_count, stored_count>>
extraction == <<item_count, item_i, filter_enabled, locals, tally, item_log>>
timing == <<start_cycle_time, check_interval, sleep_time, sort_state, checks,
            sort_log, sleep_log>>
dispatch == <<alert_env, message_len, transport_calls>>
\* what the main loop's model leaves alone: the timing of the cycle and the
\* transport calls of one alert
aside == <<timing, dispatch>>

\* main's variables other than its position
main_rest == <<known_products, disk, driver, run_count, query_idx, pass, caller,
               alerts, save_calls, trail>>

query == SEARCH_QUERIES[query_idx]

\* No search_mercari call has been made yet.
NoSearch ==
  [outcome |-> "none", sort |-> "none", crashed |-> FALSE,
   extractor_invoked |-> FALSE]

\* ------------------------------------------------------- currency conversion
\* A text is a sequence of characters; "yen" stands for the yen sign.
DigitValue ==
  [c \in {"0", "1", "2", "3", "4", "5", "6", "7", "8", "9"} |->
     CASE c = "0" -> 0 [] c = "1" -> 1 [] c = "2" -> 2 [] c = "3" -> 3
       [] c = "4" -> 4 [] c = "5" -> 5 [] c = "6" -> 6 [] c = "7" -> 7
       [] c = "8" -> 8 [] OTHER -> 9]

IsDigit(c) == c \in DOMAIN DigitValue

\* re.sub(r'[^\d.]', '', jpy_str)
CleanPrice(s) == SelectSeq(s, LAMBDA c : IsDigit(c) \/ c = ".")

\* The number of dots of a text.
Dots(s) == Len(SelectSeq(s, LAMBDA c : c = "."))

\* float(s) succeeds on a text of digits and dots: at least one digit and at
\* most one dot.
FloatParses(s) ==
  /\ \A i \in DOMAIN s : IsDigit(s[i]) \/ s[i] = "."
  /\ \E i \in DOMAIN s : IsDigit(s[i])
  /\ Dots(s) <= 1

RECURSIVE DigitsValue(_)
\* The integer written by a text of digits.
DigitsValue(s) ==
  IF s = <<>> THEN 0
  ELSE 10 * DigitsValue(SubSeq(s, 1, Len(s) - 1)) + DigitValue[s[Len(s)]]

RECURSIVE Pow10(_)
Pow10(n) == IF n = 0 THEN 1 ELSE 10 * Pow10(n - 1)

\* The digits after the dot of a text that parses as a float.
Decimals(s) ==
  IF Dots(s) = 0 THEN 0
  ELSE Len(s) - (CHOOSE i \in DOMAIN s : s[i] = ".")

\* float(s) * rate, in euro cents rounded to the nearest (f"{euro:.2f}").  The
\* rate is in 1/10000 euro per yen, so the product is
\* digits * rate / (10^decimals * 10000) euro.
EuroCents(s, rate) ==
  LET num == DigitsValue(SelectSeq(s, IsDigit)) * rate
      den == Pow10(Decimals(s)) * 100
  IN  (2 * num + den) \div (2 * den)

\* The values of price_euro: a formatted amount, or one of the N/A texts.
Euro(cents) == [na |-> "", cents |-> cents]
EuroNA(why) == [na |-> why, cents |-> 0]

\* JPY_TO_EUR_RATE = None is the rate 0: a fetched rate is never 0 (`if rate:`).
None == 0

\* jpy_to_euro(jpy_str), given the rate get_jpy_to_eur_rate returned.
jpy_to_euro(jpy_str, rate) ==
  IF rate = None THEN EuroNA("Rate Error")
  ELSE LET jpy_str_cleaned == CleanPrice(jpy_str) IN
       IF jpy_str_cleaned = <<>> THEN EuroNA("Parse Error")
       ELSE IF ~FloatParses(jpy_str_cleaned) THEN EuroNA("Conv. Error")
       ELSE Euro(EuroCents(jpy_str_cleaned, rate))

\* --------------------------------------------------------------- rate cache
\* What the rate provider answers: the request fails (ok = FALSE), or the
\* response holds the rate `rate`, 0 when it holds no EUR rate.
RateResponses ==
  {[ok |-> FALSE, rate |-> 0], [ok |-> TRUE, rate |-> 0],
   [ok |-> TRUE, rate |-> 62]}

\* The response gives a rate: no exception, and `if rate:` holds.
GivesRate(response) == response.ok /\ response.rate # 0

\* The cache test of get_jpy_to_eur_rate taken with <= instead of <.
CacheFreshInclusive(rate, updated, t) ==
  rate # None /\ t - updated <= CURRENCY_RATE_UPDATE_INTERVAL_SECONDS

\* JPY_TO_EUR_RATE is not None and (now - RATE_LAST_UPDATED < interval)
CacheFresh(rate, updated, t) ==
  rate # None /\ t - updated < CURRENCY_RATE_UPDATE_INTERVAL_SECONDS

\* get_jpy_to_eur_rate stamping the time of every fetch, also of one that
\* gave no rate.
get_jpy_to_eur_rate_stamps_every_fetch(rate, updated, t, response) ==
  IF CacheFresh(rate, updated, t)
  THEN [rate |-> rate, updated |-> updated, fetched |-> FALSE, result |-> rate]
  ELSE IF GivesRate(response)
       THEN [rate |-> response.rate, updated |-> t, fetched |-> TRUE,
             result |-> response.rate]
       ELSE [rate |-> rate, updated |-> t, fetched |-> TRUE,
             result |-> rate]

\* get_jpy_to_eur_rate() called at time t with the cache (rate, updated), the
\* provider answering `response` if asked: the new cache, whether the provider
\* was asked, and the value returned.
get_jpy_to_eur_rate(rate, updated, t, response) ==
  IF CacheFresh(rate, updated, t)
  THEN [rate |-> rate, updated |-> updated, fetched |-> FALSE, result |-> rate]
  ELSE IF GivesRate(response)
       THEN [rate |-> response.rate, updated |-> t, fetched |-> TRUE,
             result |-> response.rate]
       ELSE [rate |-> rate, updated |-> updated, fetched |-> TRUE,
             result |-> rate]

\* One call of get_jpy_to_eur_rate on the globals, with its log: the time of
\* the last fetch that gave a rate, whether this call asked the provider, what
\* it returned, the number of times the provider was asked and the number of
\* times it gave a rate.
RateCall(response) ==
  LET r == get_jpy_to_eur_rate(JPY_TO_EUR_RATE, RATE_LAST_UPDATED, clock, response)
  IN  /\ JPY_TO_EUR_RATE' = r.rate
      /\ RATE_LAST_UPDATED' = r.updated
      /\ rate_log' = [fetched_at |-> IF r.fetched /\ GivesRate(response)
                                     THEN clock ELSE rate_log.fetched_at,
                      fetched |-> r.fetched,
                      result |-> r.result,
                      fetches |-> rate_log.fetches + (IF r.fetched THEN 1 ELSE 0),
                      successes |-> rate_log.successes +
                                      (IF r.fetched /\ GivesRate(response) THEN 1 ELSE 0)]

\* The globals at import time; no call has been made.
RateInit ==
  /\ JPY_TO_EUR_RATE = None
  /\ RATE_LAST_UPDATED = 0
  /\ clock = 0
  /\ rate_log = [fetched_at |-> -1, fetched |-> FALSE, result |-> None,
                 fetches |-> 0, successes |-> 0]


\* --------------------------------------------------- one listing element
\* The initial values of the loop's locals.
TitleNotFound == <<"Title not found">>
PriceNotFound == <<"Price not found">>
NoLink == <<"None", 0>>
NoId == 0

RECURSIVE Strip(_)
\* str.strip() on a text
Strip(s) ==
  IF s # <<>> /\ Head(s) = " " THEN Strip(Tail(s))
  ELSE IF s # <<>> /\ s[Len(s)] = " " THEN Strip(SubSeq(s, 1, Len(s) - 1))
  ELSE s

\* The href of the element's thumbnail link: absent or empty (NoLink), the
\* link of item n (it ends in /m<n>), or a link that does not end in an id.
Hrefs == {NoLink, <<"item", 1>>, <<"other", 1>>}

\* product_id: group 1 of re.search(r'/(m\d+)/?$', link), else
\* f"hash_{hash(link)}_{i}", an id no item link gives and that differs from
\* one position to the next.
ProductIdOf(href, i) == IF href[1] = "item" THEN href[2] ELSE MaxId + i

\* The ids an extraction can produce.
ExtractIds == 1..(MaxId + MaxItems)

\* The title span of the element: absent, or present with its text.
TitleElems ==
  {[present |-> FALSE, text |-> <<>>]} \cup
  {[present |-> TRUE, text |-> t] : t \in {<<>>, <<" ", "a", "b", " ">>}}

\* The aria-label of div.merItemThumbnail: a name, white space or none after
\* it, and the digits of "<digits>円" (none when the label holds no price).
\* The empty label is the one with no name, no space and no price.
Labels ==
  [name : {<<>>, <<"c", "d">>}, space : BOOLEAN,
   yen : {<<>>, <<"1", ",", "5", "0", "0">>}]

NoLabel == [name |-> <<>>, space |-> FALSE, yen |-> <<>>]

\* div.merItemThumbnail of the element: found or not, with its label.
Thumbs ==
  {[div |-> FALSE, label |-> NoLabel]} \cup {[div |-> TRUE, label |-> l] : l \in Labels}

\* re.match(r'^(.*?)\s+\d{1,3}(?:,\d{3})*円', aria_label)
TitleMatch(label) == label.space /\ label.yen # <<>>

\* re.search(r'(\d{1,3}(?:,\d{3})*|\d+)\s*円', aria_label)
PriceMatch(label) == label.yen # <<>>

\* The title after the title block of the loop: the stripped text of the
\* title span, replaced by the name of the label when the text is shorter
\* than 2 and the label matches; "Title not found" when there is no span.
TitleOf(elem, th) ==
  IF ~elem.present THEN TitleNotFound
  ELSE LET text == Strip(elem.text) IN
       IF Len(text) < 2 /\ th.div /\ th.label # NoLabel /\ TitleMatch(th.label)
       THEN Strip(th.label.name)
       ELSE text

\* Which strategy gave the title a value: the text of the span, the label, or
\* none of them.
TitleFrom(elem, th) ==
  IF elem.present /\ Len(Strip(elem.text)) >= 2 THEN "text"
  ELSE IF elem.present /\ th.div /\ TitleMatch(th.label)
            /\ Strip(th.label.name) # <<>>
       THEN "label"
       ELSE "none"

\* The texts of the visible price candidates of an element, in the order the
\* selectors find them.
VisibleTexts == {<<"1", "5">>, <<"yen">>, <<"yen", "1", ".", "5", ".">>}
VisiblePrices == {<<>>} \cup {<<t>> : t \in VisibleTexts} \cup {<<<<"1", "5">>, <<"yen">>>>}

\* '¥' in p_text
HasYen(text) == \E i \in DOMAIN text : text[i] = "yen"

\* The first candidate holding the yen sign, or "Price not found".
FirstVisiblePrice(candidates) ==
  LET with_yen == SelectSeq(candidates, HasYen)
  IN  IF with_yen = <<>> THEN PriceNotFound ELSE Head(with_yen)

\* The price after the price block of the loop: "¥" + the digits of the label
\* when the label holds a price, else the first visible candidate with a yen
\* sign; when div.merItemThumbnail is not found the block is left at once.
PriceOf(th, candidates) ==
  IF ~th.div THEN PriceNotFound
  ELSE IF PriceMatch(th.label) THEN <<"yen">> \o th.label.yen
  ELSE FirstVisiblePrice(candidates)

\* src (or data-src) of the element's img: none, a URL, or something else.
ImageSrcs == {"", "https://static.mercdn.net/thumb.jpg", "data:image/gif;base64"}

\* item_image.startswith('http')
StartsWithHttp(src) == src = "https://static.mercdn.net/thumb.jpg"

\* What is_background_white meets: the download and decoding of the image
\* ("ok" or what went wrong), and for a decoded image the number of its
\* BorderPixels border pixels that are light.
ClassifierEnvs ==
  {[fetch |-> f, white_count |-> 0] :
     f \in {"timeout", "request_error", "not_image", "undecodable", "too_small"}}
  \cup {[fetch |-> "ok", white_count |-> w] : w \in {0, 94, 95, 97, BorderPixels}}

\* white_count / len(border_pixels) >= border_threshold, in percent
LightFraction(white_count) ==
  white_count * 100 >= WHITE_BG_BORDER_THRESHOLD * BorderPixels

\* The classifier taking an image it could not get or decode for white.
is_background_white_fail_closed(image_url, env) ==
  /\ StartsWithHttp(image_url)
  /\ env.fetch = "ok" => LightFraction(env.white_count)

\* The classifier with a strict comparison.
is_background_white_strict(image_url, env) ==
  /\ StartsWithHttp(image_url)
  /\ env.fetch = "ok"
  /\ env.white_count * 100 > WHITE_BG_BORDER_THRESHOLD * BorderPixels

\* is_background_white(image_url, ...): False on a missing URL and on every
\* error, else whether the light fraction of the border reaches the threshold.
is_background_white(image_url, env) ==
  /\ StartsWithHttp(image_url)
  /\ env.fetch = "ok"
  /\ LightFraction(env.white_count)

\* if product_id and link and title != "Title not found" and price != "Price not found"
EssentialInfoFound(id, href, t, p) ==
  id # NoId /\ href # NoLink /\ t # TitleNotFound /\ p # PriceNotFound

\* products[product_id] = {...}: the entry of the id is replaced where it is,
\* a new id is appended.
PutEntry(entries, id, product) ==
  IF id \in IdsOf(entries)
  THEN [n \in DOMAIN entries |->
          IF entries[n].id = id THEN [id |-> id, product |-> product] ELSE entries[n]]
  ELSE Append(entries, [id |-> id, product |-> product])

\* The entry of an id in a sequence of entries.
EntryOf(entries, id) ==
  (CHOOSE e \in {entries[n] : n \in DOMAIN entries} : e.id = id).product

\* The log of an element: which strategy gave its title, whether the
\* classifier was consulted, how its download and decoding went and the light
\* border pixels it counted (-1 when it counted none), whether an
\* element skipped as white had the essential fields, and how the loop body
\* was left.
NoItem ==
  [title_from |-> "none", bg_checked |-> FALSE, fetch |-> "none",
   white_count |-> -1, essential |-> FALSE, outcome |-> "none"]

\* div.merItemThumbnail not looked up (or not found).
NoThumb == [div |-> FALSE, label |-> NoLabel]

\* The loop's locals as assigned at the top of the loop body.
LocalsReset ==
  /\ product_id' = NoId
  /\ link' = NoLink
  /\ title' = TitleNotFound
  /\ price' = PriceNotFound
  /\ item_image' = ""
  /\ screenshot_path' = "None"
  /\ is_white_bg' = FALSE
  /\ thumb' = NoThumb

\* The loop body is left for the next element: its locals are dead until the
\* top of the loop assigns them again. The log keeps how the body was left and
\* where the title came from.
EndOfBody(outcome) ==
  /\ LocalsReset
  /\ item_log' = [NoItem EXCEPT !.outcome = outcome,
                                !.title_from = item_log.title_from]
  /\ pc' = "item_loop"

\* extract_products_mercari is not running.
ExtractionIdle ==
  /\ item_count = 0
  /\ item_i = 0
  /\ filter_enabled = FALSE
  /\ product_id = NoId
  /\ link = NoLink
  /\ title = TitleNotFound
  /\ price = PriceNotFound
  /\ item_image = ""
  /\ screenshot_path = "None"
  /\ is_white_bg = FALSE
  /\ thumb = NoThumb
  /\ products = <<>>
  /\ processed_count = 0
  /\ stored_count = 0
  /\ item_log = NoItem

\* No cycle has been timed: nothing was slept, no page was checked, the sort
\* was not tried.
NoSleep == [kind |-> "none", secs |-> 0, after_query |-> 0]
NoChecks == [block |-> FALSE, captcha |-> FALSE, extracted |-> FALSE]
NoSort == [lookup |-> FALSE, selected |-> FALSE, settled |-> FALSE]

TimingIdle ==
  /\ start_cycle_time = 0
  /\ check_interval = 0
  /\ sleep_time = 0
  /\ sort_state = "NotApplied"
  /\ checks = NoChecks
  /\ sort_log = NoSort
  /\ sleep_log = NoSleep

\* send_product_alert is not running.
NoAlertEnv ==
  [query_len |-> 0, title_len |-> 0, debug |-> FALSE, shots |-> FALSE,
   media |-> "none"]

DispatchIdle ==
  /\ alert_env = NoAlertEnv
  /\ message_len = 0
  /\ transport_calls = <<>>

Init ==
  /\ file \in InitialFiles
  /\ temp_file = NoFile
  /\ \E read_ok \in BOOLEAN :
       known_products = InitQueries(load_known_products(file, read_ok))
  /\ pc = "setup"
  /\ driver = "None"
  /\ run_count = 0
  /\ query_idx = 1
  /\ current_products = <<>>
  /\ new_products_for_query = <<>>
  /\ pos = 1
  /\ caller = "loop"
  /\ attempts = <<>>
  /\ since_alert = 0
  /\ last_gap = alert_delay
  /\ alert_count = [qi \in Queries \X Ids |-> 0]
  /\ save_calls = 0
  /\ known_before = known_products
  /\ file_before = file
  /\ save_failures = 0
  /\ search_log = NoSearch
  /\ stop_reason = "none"
  /\ critical_report = "none"
  /\ stop_notice = "none"
  /\ RateInit
  /\ ExtractionIdle
  /\ TimingIdle
  /\ DispatchIdle

\* ---------------------------------------------------------------- search
\* What the page shows: the listing elements in page order, without repeats.
Listings ==
  {l \in UNION {[1..n -> Ids] : n \in 0..MaxId} :
     \A i, j \in DOMAIN l : i # j => l[i] # l[j]}

\* extract_products_mercari on a listing: one product per element, keyed by
\* its id, stamped with the time of extraction (the cycle), with the path of
\* the element's screenshot or None when the screenshot failed.
extract_products_mercari(listing, shot_ok, now) ==
  [i \in DOMAIN listing |->
     [id |-> listing[i],
      product |-> [found_time |-> now,
                   screenshot_path |-> IF shot_ok[listing[i]] THEN "item.png" ELSE "None"]]]

\* The stages of search_mercari at which the browser can raise, in the order
\* of the code: driver.get, the block-page checks, apply_sort_by_newest_mercari,
\* the CAPTCHA check, extract_products_mercari.
SearchStages == {"navigation", "block_check", "sort", "captcha_check", "extraction"}

\* The environments of one search_mercari call: the exception the browser
\* raises (if any) and the stage at which it does, whether a block page shows,
\* whether the sort could be applied, whether a CAPTCHA frame is present.
\* "crash" is a WebDriverException that reports a crashed or disconnected
\* session, "webdriver" any other WebDriverException.
SearchEnvs ==
  [exc : {"none", "timeout", "webdriver", "crash", "other"},
   stage : SearchStages,
   blocked : BOOLEAN, sort_applied : BOOLEAN, captcha : BOOLEAN]

\* The exception is raised in search_mercari's own try block, outside
\* apply_sort_by_newest_mercari and extract_products_mercari, and before any
\* return: at driver.get or the block-page checks, or at the CAPTCHA check
\* when the call got that far.
RaisedInSearch(env) ==
  /\ env.exc # "none"
  /\ \/ env.stage \in {"navigation", "block_check"}
     \/ env.stage = "captcha_check" /\ ~env.blocked /\ env.sort_applied

\* The exception is raised inside apply_sort_by_newest_mercari, whose except
\* clauses catch everything and return False.
RaisedInSort(env) == env.exc # "none" /\ env.stage = "sort" /\ ~env.blocked

\* sort_applied of search_mercari
SortApplied(env) == env.sort_applied /\ ~RaisedInSort(env)

\* Where the call leaves the sort: "none" when it returned or raised before
\* apply_sort_by_newest_mercari was called, else what that call returned.
SortState(env) ==
  IF (RaisedInSearch(env) /\ env.stage # "captcha_check") \/ env.blocked
  THEN "none"
  ELSE IF SortApplied(env) THEN "applied" ELSE "failed"

\* search_mercari re-raising every WebDriverException it catches.
SearchRaisesAnyBrowserError(env) ==
  RaisedInSearch(env) /\ env.exc \in {"crash", "webdriver"}

\* search_mercari re-raises only a WebDriverException that reports a crashed
\* or disconnected session, and only from its own except clause.
SearchRaises(env) == RaisedInSearch(env) /\ env.exc = "crash"

\* The extraction entered on a block or CAPTCHA page as on any other.
SearchExtractsDespiteAnomaly(env) ==
  ~RaisedInSearch(env) /\ SortApplied(env)

\* The extraction entered whether or not the sort was applied.
SearchExtractsUnsorted(env) ==
  ~RaisedInSearch(env) /\ ~env.blocked /\ ~env.captcha

\* search_mercari reaches extract_products_mercari and returns its result.
SearchExtracts(env) ==
  ~RaisedInSearch(env) /\ ~env.blocked /\ SortApplied(env) /\ ~env.captcha

\* The exception is raised inside extract_products_mercari, whose except
\* clauses catch everything: the call returns the products stored so far.
RaisedInExtraction(env) ==
  env.exc # "none" /\ env.stage = "extraction" /\ SearchExtracts(env)

\* How the call ends, in the order search_mercari decides it.
SearchOutcome(env) ==
  IF RaisedInSearch(env)
  THEN CASE env.exc = "timeout" -> "timeout"
         [] env.exc = "webdriver" -> "browser_error"
         [] env.exc = "crash" -> "raised"
         [] OTHER -> "unexpected"
  ELSE IF env.blocked THEN "blocked"
  ELSE IF ~SortApplied(env) THEN "sort_failed"
  ELSE IF env.captcha THEN "captcha"
  ELSE "extracted"

\* Whether a crashed or disconnected session showed during the call.
SessionCrashed(env) ==
  /\ env.exc = "crash"
  /\ RaisedInSearch(env) \/ RaisedInSort(env) \/ RaisedInExtraction(env)

\* The ids the diff of main compares against: the keys of
\* known_products[query], the entry of the query being checked.
KnownIdsAnyQuery(known, q) == UNION {DOMAIN known[x] : x \in DOMAIN known}
KnownIds(known, q) == DOMAIN known[q]

\* The diff of main: the current entries whose id is not among `ids`, in the
\* order of current.
NewProducts(current, ids) == SelectSeq(current, LAMBDA e : e.id \notin ids)

\* if new_products_for_query: (the alert loop) else: (log); then, either
\* way, save_known_products.
AfterDiffSkipsSave(new) == IF new # <<>> THEN "pause" ELSE "delay"
AfterDiff(new) == IF new # <<>> THEN "pause" ELSE "save_open"

\* ------------------------------------------------------------------ main
\* driver = setup_browser(); it raises when no browser could be started.
SetupBrowser ==
  /\ pc = "setup"
  /\ \/ /\ driver' = "open"
        /\ pc' = "cycle"
     \/ /\ driver' = driver
        /\ pc' = "critical"
  /\ UNCHANGED <<aside, extraction, rates, trail, known_products, disk, run_count, query_idx, pass, caller,
                 alerts, save_calls>>

\* while True: run_count += 1 ... (before the for loop over the queries)
CycleStart ==
  /\ pc = "cycle"
  /\ run_count < MaxCycles
  /\ run_count' = run_count + 1
  /\ query_idx' = 1
  /\ save_calls' = 0
  /\ pc' = "search"
  /\ UNCHANGED <<aside, extraction, rates, trail, known_products, disk, driver, pass, caller, alerts>>

\* current_products = search_mercari(driver, query)
Search ==
  /\ pc = "search"
  /\ \E env \in SearchEnvs :
       /\ search_log' = [outcome |-> SearchOutcome(env),
                         sort |-> SortState(env),
                         crashed |-> SessionCrashed(env),
                         extractor_invoked |-> SearchExtracts(env)]
       /\ IF SearchRaises(env)
          THEN /\ pc' = "critical"
               /\ current_products' = current_products
          ELSE /\ pc' = "diff"
               /\ IF SearchExtracts(env)
                  THEN \E listing \in Listings, shot_ok \in [Ids -> BOOLEAN] :
                         current_products' =
                           extract_products_mercari(listing, shot_ok, run_count)
                  ELSE current_products' = <<>>
  /\ UNCHANGED <<aside, extraction, rates, stop_reason, critical_report, stop_notice, known_products, disk, driver, run_count, query_idx,
                 new_products_for_query, pos, known_before, caller, alerts,
                 save_calls>>

\* The diff with the accepted records committed at once, before any alert.
DiffCommitsAll ==
  /\ pc = "diff"
  /\ new_products_for_query' =
       NewProducts(current_products, KnownIds(known_products, query))
  /\ known_products' =
       [known_products EXCEPT ![query] =
          [i \in (DOMAIN @) \cup IdsOf(new_products_for_query') |->
             IF i \in DOMAIN @ THEN @[i]
             ELSE (CHOOSE e \in {new_products_for_query'[n] :
                                   n \in DOMAIN new_products_for_query'} :
                     e.id = i).product]]
  /\ pos' = 1
  /\ attempts' = <<>>
  /\ known_before' = known_products
  /\ pc' = AfterDiff(new_products_for_query')
  /\ caller' = "loop"
  /\ UNCHANGED <<aside, extraction, rates, trail, disk, driver, run_count, query_idx, current_products,
                 since_alert, last_gap, alert_count, save_calls>>

\* if query not in known_products: known_products[query] = {}
\* new_products_for_query = {id: product ... if id not in known_products[query]}
\* then the alert loop when there is something new, else straight to the save.
Diff ==
  /\ pc = "diff"
  /\ known_products' =
       IF query \notin DOMAIN known_products
       THEN Put(known_products, query, <<>>)
       ELSE known_products
  /\ new_products_for_query' =
       NewProducts(current_products, KnownIds(known_products', query))
  /\ pos' = 1
  /\ attempts' = <<>>
  /\ known_before' = known_products
  /\ pc' = AfterDiff(new_products_for_query')
  /\ caller' = "loop"
  /\ UNCHANGED <<aside, extraction, rates, trail, disk, driver, run_count, query_idx, current_products,
                 since_alert, last_gap, alert_count, save_calls>>

Min(a, b) == IF a <= b THEN a ELSE b

\* The pause taken between alerts only: none before the first of a pass.
PauseBetweenOnly ==
  /\ pc = "pause"
  /\ since_alert' = IF pos > 1 THEN Min(alert_delay, since_alert + alert_delay)
                    ELSE since_alert
  /\ pc' = "send"
  /\ UNCHANGED <<aside, extraction, rates, trail, known_products, disk, driver, run_count, query_idx, pass,
                 caller, attempts, last_gap, alert_count, save_calls>>

\* time.sleep(alert_delay), before every alert of the loop
Pause ==
  /\ pc = "pause"
  /\ since_alert' = Min(alert_delay, since_alert + alert_delay)
  /\ pc' = "send"
  /\ UNCHANGED <<aside, extraction, rates, trail, known_products, disk, driver, run_count, query_idx, pass,
                 caller, attempts, last_gap, alert_count, save_calls>>

\* send_product_alert(product, query, product_id): one send_message with the
\* alert text, whose outcome is the provider's; whatever it raises is caught
\* inside.  The photo or image-URL follow-up touches nothing modelled here.
SendOutcomes == {"ok", "flood", "error"}

\* send_product_alert without its try/except: a failed send propagates to
\* main's except Exception.
send_product_alert_raises ==
  /\ pc = "send"
  /\ \E outcome \in SendOutcomes :
       /\ attempts' = Append(attempts,
                             [id |-> new_products_for_query[pos].id, outcome |-> outcome])
       /\ pc' = IF outcome = "ok" THEN "commit" ELSE "critical"
  /\ last_gap' = since_alert
  /\ since_alert' = 0
  /\ alert_count' =
       [alert_count EXCEPT ![<<query, new_products_for_query[pos].id>>] = Min(2, @ + 1)]
  /\ UNCHANGED <<aside, extraction, rates, trail, known_products, disk, driver, run_count, query_idx, pass,
                 caller, save_calls>>

send_product_alert ==
  /\ pc = "send"
  /\ \E outcome \in SendOutcomes :
       attempts' = Append(attempts,
                          [id |-> new_products_for_query[pos].id, outcome |-> outcome])
  /\ last_gap' = since_alert
  /\ since_alert' = 0
  /\ alert_count' =
       [alert_count EXCEPT ![<<query, new_products_for_query[pos].id>>] = Min(2, @ + 1)]
  /\ pc' = "commit"
  /\ UNCHANGED <<aside, extraction, rates, trail, known_products, disk, driver, run_count, query_idx, pass,
                 caller, save_calls>>

\* Where the alert loop goes after the item at pos.
LoopNext ==
  IF pos < Len(new_products_for_query)
  THEN pos' = pos + 1 /\ pc' = "pause"
  ELSE pos' = pos /\ pc' = "save_open"

\* The commit that stores the record under every configured query.
CommitUnderEveryQuery ==
  /\ pc = "commit"
  /\ known_products' =
       [q \in DOMAIN known_products |->
          Put(known_products[q], new_products_for_query[pos].id,
              new_products_for_query[pos].product)]
  /\ LoopNext
  /\ caller' = "loop"
  /\ UNCHANGED <<aside, extraction, rates, trail, disk, driver, run_count, query_idx, current_products,
                 new_products_for_query, known_before, alerts, save_calls>>

\* The commit made only when the alert was delivered.
CommitOnlyIfSent ==
  /\ pc = "commit"
  /\ known_products' =
       IF attempts[Len(attempts)].outcome = "ok"
       THEN [known_products EXCEPT ![query] =
               Put(@, new_products_for_query[pos].id, new_products_for_query[pos].product)]
       ELSE known_products
  /\ LoopNext
  /\ caller' = "loop"
  /\ UNCHANGED <<aside, extraction, rates, trail, disk, driver, run_count, query_idx, current_products,
                 new_products_for_query, known_before, alerts, save_calls>>

\* The commit that stores the record under the first configured query.
CommitWrongQuery ==
  /\ pc = "commit"
  /\ known_products' =
       [known_products EXCEPT ![SEARCH_QUERIES[1]] =
          Put(@, new_products_for_query[pos].id, new_products_for_query[pos].product)]
  /\ LoopNext
  /\ caller' = "loop"
  /\ UNCHANGED <<aside, extraction, rates, trail, disk, driver, run_count, query_idx, current_products,
                 new_products_for_query, known_before, alerts, save_calls>>

\* The commit that replaces the query's entry by the current extraction.
CommitReplacesEntry ==
  /\ pc = "commit"
  /\ known_products' =
       [known_products EXCEPT ![query] =
          [i \in IdsOf(current_products) |->
             (CHOOSE e \in {current_products[n] : n \in DOMAIN current_products} :
                e.id = i).product]]
  /\ LoopNext
  /\ caller' = "loop"
  /\ UNCHANGED <<aside, extraction, rates, trail, disk, driver, run_count, query_idx, current_products,
                 new_products_for_query, known_before, alerts, save_calls>>

\* known_products[query][product_id] = product, then the next item of the
\* loop or, after the last one, save_known_products.
Commit ==
  /\ pc = "commit"
  /\ known_products' =
       [known_products EXCEPT ![query] =
          Put(@, new_products_for_query[pos].id, new_products_for_query[pos].product)]
  /\ LoopNext
  /\ caller' = "loop"
  /\ UNCHANGED <<aside, extraction, rates, trail, disk, driver, run_count, query_idx, current_products,
                 new_products_for_query, known_before, alerts, save_calls>>

\* ------------------------------------------------------------------ save
\* Where control goes when save_known_products returns: the rest of the
\* query pass, or (called from the critical-error handler) the finally block.
AfterSave == IF caller = "loop" THEN "delay" ELSE "finally"

\* The except branch of save_known_products: the error is logged and the
\* function returns; the files stay as the failed step left them.
SaveFails ==
  /\ save_failures < MaxSaveFailures
  /\ save_failures' = save_failures + 1
  /\ pc' = AfterSave

\* The save that opens the store file itself for writing.
SaveOpenInPlace ==
  /\ pc = "save_open"
  /\ save_calls' = Min(Len(SEARCH_QUERIES) + 1, save_calls + 1)
  /\ file_before' = file
  /\ \/ /\ file' = [exists |-> TRUE, data |-> products_to_save(known_products),
                    written |-> "empty"]
        /\ pc' = "save_write"
        /\ save_failures' = save_failures
     \/ /\ file' = file
        /\ SaveFails
  /\ UNCHANGED <<aside, extraction, rates, trail, known_products, temp_file, driver, run_count, query_idx, pass,
                 caller, alerts>>

\* save_known_products, first part: build products_to_save and
\* open(temp_file, "w"), which creates or truncates the staging file.
SaveOpen ==
  /\ pc = "save_open"
  /\ save_calls' = Min(Len(SEARCH_QUERIES) + 1, save_calls + 1)
  /\ file_before' = file
  /\ \/ /\ temp_file' = [exists |-> TRUE, data |-> products_to_save(known_products),
                         written |-> "empty"]
        /\ pc' = "save_write"
        /\ save_failures' = save_failures
     \/ /\ temp_file' = temp_file
        /\ SaveFails
  /\ UNCHANGED <<aside, extraction, rates, trail, known_products, file, driver, run_count, query_idx, pass,
                 caller, alerts>>

\* json.dump(products_to_save, f, ...): the text reaches the staging file
\* piece by piece; a write error leaves it as it is.
SaveWrite ==
  /\ pc = "save_write"
  /\ \/ /\ temp_file' = [temp_file EXCEPT !.written = "partial"]
        /\ pc' = "save_close"
        /\ save_failures' = save_failures
     \/ /\ temp_file' = temp_file
        /\ SaveFails
  /\ UNCHANGED <<aside, extraction, rates, trail, known_products, file, file_before, driver, run_count,
                 query_idx, pass, caller, alerts, save_calls>>

\* The rest of json.dump and the end of the with block (flush and close).
SaveClose ==
  /\ pc = "save_close"
  /\ \/ /\ temp_file' = [temp_file EXCEPT !.written = "complete"]
        /\ pc' = "save_replace"
        /\ save_failures' = save_failures
     \/ /\ temp_file' = temp_file
        /\ SaveFails
  /\ UNCHANGED <<aside, extraction, rates, trail, known_products, file, file_before, driver, run_count,
                 query_idx, pass, caller, alerts, save_calls>>

\* os.replace(temp_file, KNOWN_PRODUCTS_FILE): the staging file becomes the
\* store file in one step, or the call fails and nothing moves.
SaveReplace ==
  /\ pc = "save_replace"
  /\ \/ /\ file' = temp_file
        /\ temp_file' = NoFile
        /\ pc' = AfterSave
        /\ save_failures' = save_failures
     \/ /\ file' = file
        /\ temp_file' = temp_file
        /\ SaveFails
  /\ file_before' = file'
  /\ UNCHANGED <<aside, extraction, rates, trail, known_products, driver, run_count, query_idx, pass, caller,
                 alerts, save_calls>>

\* After the save of a query: the inter-query sleep (when more than one query
\* is configured), then the next query or the end of the cycle.  The pass is
\* over: its locals are dead until the next pass assigns them, and its logs
\* are closed.
InterQueryDelay ==
  /\ pc = "delay"
  /\ IF query_idx < Len(SEARCH_QUERIES)
     THEN query_idx' = query_idx + 1 /\ pc' = "search"
     ELSE query_idx' = query_idx /\ pc' = "cycle_end"
  /\ current_products' = <<>>
  /\ new_products_for_query' = <<>>
  /\ pos' = 1
  /\ known_before' = known_products
  /\ attempts' = <<>>
  /\ search_log' = NoSearch
  /\ UNCHANGED <<aside, extraction, rates, stop_reason, critical_report, stop_notice, known_products, disk, driver,
                 run_count, caller, since_alert, last_gap, alert_count,
                 save_calls>>

\* The cycle made once, without the while loop around it.
CycleEndLeavesLoop ==
  /\ pc = "cycle_end"
  /\ pc' = "finally"
  /\ UNCHANGED <<aside, extraction, rates, trail, known_products, disk, driver, run_count, query_idx, pass,
                 caller, alerts, save_calls>>

\* End of cycle: compute sleep_time, sleep, and loop.
CycleEnd ==
  /\ pc = "cycle_end"
  /\ pc' = "cycle"
  /\ UNCHANGED <<aside, extraction, rates, trail, known_products, disk, driver, run_count, query_idx, pass,
                 caller, alerts, save_calls>>

\* -------------------------------------------------------- leaving the loop
\* The positions inside main's try block.
TryPcs == {"setup", "cycle", "search", "diff", "pause", "send", "commit",
           "save_open", "save_write", "save_close", "save_replace",
           "delay", "cycle_end"}

\* Ctrl+C: KeyboardInterrupt is raised wherever control is.  Inside the try
\* block it reaches `except KeyboardInterrupt`; inside the critical-error
\* handler (and the save it calls) it passes straight to the finally block.
KeyboardInterrupt ==
  /\ \/ /\ pc \in TryPcs /\ caller = "loop"
        /\ pc' = "interrupted"
     \/ /\ \/ pc = "critical"
           \/ pc \in TryPcs /\ caller = "critical"
        /\ pc' = "finally"
  /\ stop_reason' = "KeyboardInterrupt"
  /\ UNCHANGED <<aside, extraction, rates, search_log, critical_report, stop_notice, known_products, disk, driver,
                 run_count, query_idx, pass, caller, alerts, save_calls>>

\* except KeyboardInterrupt: log, and tell the operator.  The send_message is
\* not guarded: when it raises, the exception leaves the handler, through the
\* finally block as well.
InterruptHandler ==
  /\ pc = "interrupted"
  /\ stop_notice' \in {"sent", "failed"}
  /\ pc' = "finally"
  /\ UNCHANGED <<aside, extraction, rates, search_log, stop_reason, critical_report, known_products, disk,
                 driver, run_count, query_idx, pass, caller, alerts, save_calls>>

\* The critical-error handler with its report left unguarded: a failing report
\* leaves through the finally block, past the save.
CriticalHandlerReportUnguarded ==
  /\ pc = "critical"
  /\ stop_reason' = "Exception"
  /\ caller' = "critical"
  /\ \E report \in {"sent", "failed"} :
       /\ critical_report' = report
       /\ pc' = IF report = "sent" THEN "save_open" ELSE "finally"
  /\ UNCHANGED <<aside, extraction, rates, search_log, stop_notice, known_products, disk, driver, run_count, query_idx,
                 pass, alerts, save_calls>>

\* except Exception: log, report to the operator (the text, then a screenshot
\* of the browser; whatever the report raises is caught and printed), then
\* save_known_products(known_products).
CriticalHandler ==
  /\ pc = "critical"
  /\ stop_reason' = "Exception"
  /\ caller' = "critical"
  /\ critical_report' \in {"sent", "failed"}
  /\ pc' = "save_open"
  /\ UNCHANGED <<aside, extraction, rates, search_log, stop_notice, known_products, disk, driver, run_count, query_idx,
                 pass, alerts, save_calls>>

\* The browser closed at the end of the handlers instead of in a finally
\* block: an exception raised by the interrupt handler's notice passes it by.
FinallyAfterHandlerOnly ==
  /\ pc = "finally"
  /\ driver' = IF driver = "open" /\ stop_notice # "failed" THEN "quit" ELSE driver
  /\ pc' = "stopped"
  /\ UNCHANGED <<aside, extraction, rates, trail, known_products, disk, run_count, query_idx, pass, caller,
                 alerts, save_calls>>

\* finally: if driver: driver.quit()
Finally ==
  /\ pc = "finally"
  /\ driver' = IF driver = "open" THEN "quit" ELSE driver
  /\ pc' = "stopped"
  /\ UNCHANGED <<aside, extraction, rates, trail, known_products, disk, run_count, query_idx, pass, caller,
                 alerts, save_calls>>

Next ==
  \/ SetupBrowser
  \/ CycleStart
  \/ Search
  \/ Diff
  \/ Pause
  \/ send_product_alert
  \/ Commit
  \/ SaveOpen
  \/ SaveWrite
  \/ SaveClose
  \/ SaveReplace
  \/ InterQueryDelay
  \/ CycleEnd
  \/ KeyboardInterrupt
  \/ InterruptHandler
  \/ CriticalHandler
  \/ Finally

Spec == Init /\ [][Next]_vars

\* ------------------------------------------------- the loop without an end
\* while True: run_count += 1 ... with the cycle number counted up to
\* MaxCycles and left there: main uses run_count in its log texts only, and
\* the loop has no condition on it.
EndlessCycleStart ==
  /\ pc = "cycle"
  /\ run_count' = Min(MaxCycles, run_count + 1)
  /\ query_idx' = 1
  /\ save_calls' = 0
  /\ pc' = "search"
  /\ UNCHANGED <<aside, extraction, rates, trail, known_products, disk, driver, pass, caller, alerts>>

\* main with nobody pressing Ctrl+C: the loop, the critical-error handler and
\* the finally block.
ForeverNext ==
  \/ SetupBrowser
  \/ EndlessCycleStart
  \/ Search
  \/ Diff
  \/ Pause
  \/ send_product_alert
  \/ Commit
  \/ SaveOpen
  \/ SaveWrite
  \/ SaveClose
  \/ SaveReplace
  \/ InterQueryDelay
  \/ CycleEnd
  \/ CriticalHandler
  \/ Finally

\* The store file of a process that has run before: every listing of the
\* first configured query is in it, none of the others.
SeenFirstQueryFile ==
  CompleteFile(SEARCH_QUERIES[1] :> [i \in Ids |-> [found_time |-> 0]])

\* main before setup_browser, the store loaded from that file.
ForeverInit ==
  /\ file = SeenFirstQueryFile
  /\ temp_file = NoFile
  /\ known_products = InitQueries(load_known_products(file, TRUE))
  /\ pc = "setup"
  /\ driver = "None"
  /\ run_count = 0
  /\ query_idx = 1
  /\ current_products = <<>>
  /\ new_products_for_query = <<>>
  /\ pos = 1
  /\ caller = "loop"
  /\ attempts = <<>>
  /\ since_alert = 0
  /\ last_gap = alert_delay
  /\ alert_count = [qi \in Queries \X Ids |-> 0]
  /\ save_calls = 0
  /\ known_before = known_products
  /\ file_before = file
  /\ save_failures = 0
  /\ search_log = NoSearch
  /\ stop_reason = "none"
  /\ critical_report = "none"
  /\ stop_notice = "none"
  /\ RateInit
  /\ ExtractionIdle
  /\ TimingIdle
  /\ DispatchIdle

\* The interpreter runs the one thread of main on: a statement that can be
\* executed is executed (every sleep and every wait of the code is bounded).
ForeverSpec == ForeverInit /\ [][ForeverNext]_vars /\ WF_vars(ForeverNext)

\* ------------------------------------------------ the rate cache on its own
\* time.time() advances.
TimePasses ==
  /\ clock < MaxTime
  /\ clock' = clock + 1
  /\ UNCHANGED <<JPY_TO_EUR_RATE, RATE_LAST_UPDATED, rate_log, pc, main_rest, extraction, aside>>

\* A caller (main at the start of a cycle, jpy_to_euro for a record) asks for
\* the rate.
RateRequest ==
  /\ rate_log.fetches < MaxFetches
  /\ \E response \in RateResponses : RateCall(response)
  /\ UNCHANGED <<clock, pc, main_rest, extraction, aside>>

RateNext == TimePasses \/ RateRequest

RateSpec == Init /\ [][RateNext]_vars

\* ------------------------------------------------ extract_products_mercari
\* The state in which search_mercari calls extract_products_mercari for the
\* first query of the first cycle of a process that found no store file: the
\* page shows item_count listing elements, the background filter is enabled
\* or not, and the rate cache is empty, fresh or stale.
ExtractInit ==
  /\ file = NoFile
  /\ temp_file = NoFile
  /\ known_products = InitQueries(<<>>)
  /\ pc = "item_loop"
  /\ driver = "open"
  /\ run_count = 1
  /\ query_idx = 1
  /\ current_products = <<>>
  /\ new_products_for_query = <<>>
  /\ pos = 1
  /\ caller = "loop"
  /\ attempts = <<>>
  /\ since_alert = 0
  /\ last_gap = alert_delay
  /\ alert_count = [qi \in Queries \X ExtractIds |-> 0]
  /\ save_calls = 0
  /\ known_before = known_products
  /\ file_before = file
  /\ save_failures = 0
  /\ search_log = NoSearch
  /\ stop_reason = "none"
  /\ critical_report = "none"
  /\ stop_notice = "none"
  /\ item_count \in 0..MaxItems
  /\ item_i = 0
  /\ filter_enabled \in BOOLEAN
  /\ product_id = NoId
  /\ link = NoLink
  /\ title = TitleNotFound
  /\ price = PriceNotFound
  /\ item_image = ""
  /\ screenshot_path = "None"
  /\ is_white_bg = FALSE
  /\ thumb = NoThumb
  /\ products = <<>>
  /\ processed_count = 0
  /\ stored_count = 0
  /\ item_log = NoItem
  /\ TimingIdle
  /\ DispatchIdle
  /\ clock = CURRENCY_RATE_UPDATE_INTERVAL_SECONDS
  /\ JPY_TO_EUR_RATE = None
  /\ RATE_LAST_UPDATED = 0
  /\ rate_log = [fetched_at |-> -1, fetched |-> FALSE, result |-> None,
                 fetches |-> 0, successes |-> 0]

\* for i, item_element in enumerate(item_elements): the top of the loop body,
\* where the locals get their initial values.
ItemStart ==
  /\ pc = "item_loop"
  /\ item_i < item_count
  /\ item_i' = item_i + 1
  /\ LocalsReset
  /\ item_log' = NoItem
  /\ pc' = "item_link"
  /\ UNCHANGED <<item_count, filter_enabled, tally, rates, main_rest, aside>>

\* The link and id block: without a link the element is skipped (continue).
ItemLink ==
  /\ pc = "item_link"
  /\ \E href \in Hrefs :
       IF href = NoLink
       THEN EndOfBody("no_link")
       ELSE /\ link' = href
            /\ product_id' = ProductIdOf(href, item_i)
            /\ pc' = "item_title"
            /\ UNCHANGED <<title, price, item_image, screenshot_path,
                           is_white_bg, thumb, item_log>>
  /\ UNCHANGED <<item_count, item_i, filter_enabled, tally, rates, main_rest, aside>>

\* The title block.
ItemTitle ==
  /\ pc = "item_title"
  /\ \E elem \in TitleElems, th \in Thumbs :
       /\ thumb' = th
       /\ title' = TitleOf(elem, th)
       /\ item_log' = [item_log EXCEPT !.title_from = TitleFrom(elem, th)]
  /\ pc' = "item_price"
  /\ UNCHANGED <<item_count, item_i, filter_enabled, product_id, link, price,
                 item_image, screenshot_path, is_white_bg, tally, rates, main_rest, aside>>

\* The price block; the thumbnail div is not used after it.
ItemPrice ==
  /\ pc = "item_price"
  /\ \E candidates \in VisiblePrices : price' = PriceOf(thumb, candidates)
  /\ thumb' = NoThumb
  /\ pc' = "item_image"
  /\ UNCHANGED <<item_count, item_i, filter_enabled, product_id, link, title,
                 item_image, screenshot_path, is_white_bg, item_log, tally,
                 rates, main_rest, aside>>

\* The image block: a src that is not a URL is dropped.
ItemImage ==
  /\ pc = "item_image"
  /\ \E src \in ImageSrcs : item_image' = IF StartsWithHttp(src) THEN src ELSE ""
  /\ pc' = "item_filter"
  /\ UNCHANGED <<item_count, item_i, filter_enabled, product_id, link, title,
                 price, screenshot_path, is_white_bg, thumb, item_log, tally,
                 rates, main_rest, aside>>

\* The white background check: made only with the filter enabled and an image
\* URL; an element found white is counted as processed and skipped.
ItemFilter ==
  /\ pc = "item_filter"
  /\ IF filter_enabled /\ item_image # ""
     THEN \E env \in ClassifierEnvs :
            LET white == is_background_white(item_image, env)
                log == [item_log EXCEPT
                          !.bg_checked = TRUE,
                          !.fetch = env.fetch,
                          !.white_count = IF env.fetch = "ok" THEN env.white_count ELSE -1]
            IN  IF white
                THEN /\ processed_count' = processed_count + 1
                     /\ LocalsReset
                     /\ item_log' =
                          [log EXCEPT
                             !.outcome = "white_bg",
                             !.essential = EssentialInfoFound(product_id, link, title, price)]
                     /\ pc' = "item_loop"
                ELSE /\ is_white_bg' = FALSE
                     /\ item_log' = log
                     /\ pc' = "item_screenshot"
                     /\ UNCHANGED <<processed_count, product_id, link, title,
                                    price, item_image, screenshot_path, thumb>>
     ELSE /\ pc' = "item_screenshot"
          /\ UNCHANGED <<locals, item_log, processed_count>>
  /\ UNCHANGED <<item_count, item_i, filter_enabled, products, stored_count,
                 rates, main_rest, aside>>

\* item_element.screenshot(screenshot_path); on an error the path is None.
ItemScreenshot ==
  /\ pc = "item_screenshot"
  /\ \E ok \in BOOLEAN : screenshot_path' = IF ok THEN "item.png" ELSE "None"
  /\ item_log' = [item_log EXCEPT !.white_count = -1, !.fetch = "none"]
  /\ pc' = "item_store"
  /\ UNCHANGED <<item_count, item_i, filter_enabled, product_id, link, title,
                 price, item_image, is_white_bg, thumb, tally, rates, main_rest, aside>>

\* The record of the element, with the euro price jpy_to_euro gives for the
\* rate `rate`.
ProductOf(rate) ==
  [title |-> title, price_jpy |-> price,
   price_euro |-> jpy_to_euro(price, rate),
   link |-> link, image |-> item_image, found_time |-> run_count,
   screenshot_path |-> screenshot_path]

\* The store block with a record whose price could not be converted left out.
ItemStoreNeedsEuro ==
  /\ pc = "item_store"
  /\ IF EssentialInfoFound(product_id, link, title, price)
     THEN /\ \E response \in RateResponses : RateCall(response)
          /\ IF ProductOf(rate_log'.result).price_euro.na = ""
             THEN /\ products' = PutEntry(products, product_id, ProductOf(rate_log'.result))
                  /\ stored_count' = stored_count + 1
                  /\ EndOfBody("stored")
             ELSE /\ UNCHANGED <<products, stored_count>>
                  /\ EndOfBody("invalid")
     ELSE /\ EndOfBody("invalid")
          /\ UNCHANGED <<products, stored_count, JPY_TO_EUR_RATE,
                         RATE_LAST_UPDATED, rate_log>>
  /\ processed_count' = processed_count + 1
  /\ UNCHANGED <<item_count, item_i, filter_enabled, clock, main_rest, aside>>

\* The store block: with the essential fields found the record is stored under
\* its id, its euro price being whatever jpy_to_euro returns; else the element
\* is only counted as processed.
ItemStore ==
  /\ pc = "item_store"
  /\ IF EssentialInfoFound(product_id, link, title, price)
     THEN /\ \E response \in RateResponses : RateCall(response)
          /\ products' = PutEntry(products, product_id, ProductOf(rate_log'.result))
          /\ stored_count' = stored_count + 1
          /\ EndOfBody("stored")
     ELSE /\ EndOfBody("invalid")
          /\ UNCHANGED <<products, stored_count, JPY_TO_EUR_RATE,
                         RATE_LAST_UPDATED, rate_log>>
  /\ processed_count' = processed_count + 1
  /\ UNCHANGED <<item_count, item_i, filter_enabled, clock, main_rest, aside>>

\* except StaleElementReferenceException / except Exception of the loop body:
\* the scroll or the read of the title raised; the element is skipped.
ItemRaises ==
  /\ pc \in {"item_link", "item_title"}
  /\ EndOfBody("raised")
  /\ UNCHANGED <<item_count, item_i, filter_enabled, tally, rates, main_rest, aside>>

\* return products, and search_mercari returns it to main.
ExtractReturn ==
  /\ pc = "item_loop"
  /\ item_i = item_count
  /\ current_products' = products
  /\ search_log' = [outcome |-> "extracted", sort |-> "applied",
                    crashed |-> FALSE, extractor_invoked |-> TRUE]
  /\ item_log' = NoItem
  /\ pc' = "diff"
  /\ UNCHANGED <<item_count, item_i, filter_enabled, locals, tally, rates,
                 known_products, disk, driver, run_count, query_idx,
                 new_products_for_query, pos, known_before, caller, alerts,
                 save_calls, stop_reason, critical_report, stop_notice, aside>>

\* The extraction of one query's page, followed by main's diff and alert loop
\* on its result.
ExtractNext ==
  \/ ItemStart
  \/ ItemLink
  \/ ItemTitle
  \/ ItemPrice
  \/ ItemImage
  \/ ItemFilter
  \/ ItemScreenshot
  \/ ItemStore
  \/ ItemRaises
  \/ ExtractReturn
  \/ Diff
  \/ Pause
  \/ send_product_alert
  \/ Commit

ExtractSpec == ExtractInit /\ [][ExtractNext]_vars

\* ------------------------------------------------- the timing of a cycle
\* main's loop with the time its sleeps take, and search_mercari step by step
\* up to the call of the extraction; what a pass does with the result (diff,
\* alerts, save) only takes time here.

\* time.sleep(random.uniform(3, 5)) after driver.get
NavigationPauses == {3, 5}
\* time.sleep(random.uniform(5, 7)) after select_by_value
SettleDelays == {5, 7}
\* post_sort_delay = random.uniform(2, 4)
PostSortDelays == {2, 4}
\* inter_query_delay = random.uniform(5, 15)
InterQueryDelays == {5, 15}
\* The time the diff, the alerts and the save of a pass take: none, or the
\* pause before one alert.
PassRestDurations == {0, alert_delay}

\* random.randint(CONFIG["CHECK_INTERVAL_MIN"], CONFIG["CHECK_INTERVAL_MAX"])
CheckIntervals == CHECK_INTERVAL_MIN..CHECK_INTERVAL_MAX

\* sleep_time with the overrun test left out.
SleepTimeUnfloored(interval, cycle_duration) == interval - cycle_duration

\* sleep_time = check_interval - cycle_duration; if sleep_time < 0: sleep_time = 10
SleepTime(interval, cycle_duration) ==
  IF interval - cycle_duration < 0
  THEN overrun_sleep_time
  ELSE interval - cycle_duration

\* The logs of a pass as they are when search_mercari is entered.
PassLogsReset ==
  /\ sort_state' = "NotApplied"
  /\ checks' = NoChecks
  /\ sort_log' = NoSort

\* What the timing of a cycle leaves alone.
cycle_rest == <<known_products, disk, driver, pass, caller, alerts, save_calls,
                trail, extraction, dispatch>>

\* The main loop is about to start its first cycle.
CycleInit ==
  /\ file = NoFile
  /\ temp_file = NoFile
  /\ known_products = InitQueries(<<>>)
  /\ pc = "cycle"
  /\ driver = "open"
  /\ run_count = 0
  /\ query_idx = 1
  /\ current_products = <<>>
  /\ new_products_for_query = <<>>
  /\ pos = 1
  /\ caller = "loop"
  /\ attempts = <<>>
  /\ since_alert = 0
  /\ last_gap = alert_delay
  /\ alert_count = [qi \in Queries \X Ids |-> 0]
  /\ save_calls = 0
  /\ known_before = known_products
  /\ file_before = file
  /\ save_failures = 0
  /\ search_log = NoSearch
  /\ stop_reason = "none"
  /\ critical_report = "none"
  /\ stop_notice = "none"
  /\ RateInit
  /\ ExtractionIdle
  /\ TimingIdle
  /\ DispatchIdle

\* while True: run_count += 1; start_cycle_time = time.time(); then the first
\* query. What the end of the last cycle left in check_interval and sleep_time
\* is dead until the end of this one assigns them again.
TimedCycleStart ==
  /\ pc = "cycle"
  /\ run_count < MaxCycles
  /\ run_count' = run_count + 1
  /\ start_cycle_time' = clock
  /\ check_interval' = 0
  /\ sleep_time' = 0
  /\ sleep_log' = NoSleep
  /\ query_idx' = 1
  /\ PassLogsReset
  /\ pc' = "navigate"
  /\ UNCHANGED <<rates, cycle_rest>>

\* search_mercari: driver.get(search_url) and the pause after it.
SearchNavigate ==
  /\ pc = "navigate"
  /\ \E pause \in NavigationPauses : clock' = clock + pause
  /\ pc' = "block_check"
  /\ UNCHANGED <<JPY_TO_EUR_RATE, RATE_LAST_UPDATED, rate_log, run_count,
                 query_idx, timing, cycle_rest>>

\* The block checks (title, page source, selectors): on a block page
\* search_mercari returns {}, else it calls apply_sort_by_newest_mercari.
SearchBlockCheck ==
  /\ pc = "block_check"
  /\ checks' = [checks EXCEPT !.block = TRUE]
  /\ \E blocked \in BOOLEAN :
       IF blocked
       THEN pc' = "pass_rest" /\ sort_state' = sort_state
       ELSE pc' = "sort_lookup" /\ sort_state' = "Applying"
  /\ UNCHANGED <<rates, run_count, query_idx, start_cycle_time, check_interval,
                 sleep_time, sort_log, sleep_log, cycle_rest>>

\* apply_sort_by_newest_mercari: the wait for the <select>. It is found, or the
\* wait times out after wait_time, or something else is raised (a crash of the
\* session included); every exception makes the function return False, and
\* search_mercari then returns {}.
SortLookup ==
  /\ pc = "sort_lookup"
  /\ \E found \in {"found", "timeout", "error"} :
       /\ clock' = IF found = "timeout" THEN clock + wait_time ELSE clock
       /\ IF found = "found"
          THEN /\ sort_log' = [sort_log EXCEPT !.lookup = TRUE]
               /\ sort_state' = sort_state
               /\ pc' = "sort_select"
          ELSE /\ sort_log' = sort_log
               /\ sort_state' = "Failed"
               /\ pc' = "pass_rest"
  /\ UNCHANGED <<JPY_TO_EUR_RATE, RATE_LAST_UPDATED, rate_log, run_count,
                 query_idx, start_cycle_time, check_interval, sleep_time, checks,
                 sleep_log, cycle_rest>>

\* select_by_value with Applied reached as soon as the option is selected.
SortSelectAppliedAtOnce ==
  /\ pc = "sort_select"
  /\ \E selected \in {"ok", "no_option", "error"} :
       IF selected = "ok"
       THEN /\ sort_log' = [sort_log EXCEPT !.selected = TRUE]
            /\ sort_state' = "Applied"
            /\ pc' = "post_sort"
       ELSE /\ sort_log' = sort_log
            /\ sort_state' = "Failed"
            /\ pc' = "pass_rest"
  /\ UNCHANGED <<rates, run_count, query_idx, start_cycle_time, check_interval,
                 sleep_time, checks, sleep_log, cycle_rest>>

\* select_object.select_by_value(value_for_newest): the option is selected, or
\* it is not there (NoSuchElementException), or something else is raised.
SortSelect ==
  /\ pc = "sort_select"
  /\ \E selected \in {"ok", "no_option", "error"} :
       IF selected = "ok"
       THEN /\ sort_log' = [sort_log EXCEPT !.selected = TRUE]
            /\ sort_state' = sort_state
            /\ pc' = "sort_settle"
       ELSE /\ sort_log' = sort_log
            /\ sort_state' = "Failed"
            /\ pc' = "pass_rest"
  /\ UNCHANGED <<rates, run_count, query_idx, start_cycle_time, check_interval,
                 sleep_time, checks, sleep_log, cycle_rest>>

\* time.sleep(random.uniform(5, 7)); return True
SortSettle ==
  /\ pc = "sort_settle"
  /\ \E settle \in SettleDelays : clock' = clock + settle
  /\ sort_log' = [sort_log EXCEPT !.settled = TRUE]
  /\ sort_state' = "Applied"
  /\ pc' = "post_sort"
  /\ UNCHANGED <<JPY_TO_EUR_RATE, RATE_LAST_UPDATED, rate_log, run_count,
                 query_idx, start_cycle_time, check_interval, sleep_time, checks,
                 sleep_log, cycle_rest>>

\* time.sleep(post_sort_delay)
SearchPostSort ==
  /\ pc = "post_sort"
  /\ \E post_sort_delay \in PostSortDelays : clock' = clock + post_sort_delay
  /\ pc' = "captcha_check"
  /\ UNCHANGED <<JPY_TO_EUR_RATE, RATE_LAST_UPDATED, rate_log, run_count,
                 query_idx, timing, cycle_rest>>

\* The CAPTCHA check on the iframes of the page: with a CAPTCHA search_mercari
\* returns {}, else it goes on to the extraction.
SearchCaptchaCheck ==
  /\ pc = "captcha_check"
  /\ checks' = [checks EXCEPT !.captcha = TRUE]
  /\ \E captcha \in BOOLEAN :
       pc' = IF captcha THEN "pass_rest" ELSE "extract"
  /\ UNCHANGED <<rates, run_count, query_idx, start_cycle_time, check_interval,
                 sleep_time, sort_state, sort_log, sleep_log, cycle_rest>>

\* products = extract_products_mercari(driver, query); return products
SearchExtract ==
  /\ pc = "extract"
  /\ checks' = [checks EXCEPT !.extracted = TRUE]
  /\ pc' = "pass_rest"
  /\ UNCHANGED <<rates, run_count, query_idx, start_cycle_time, check_interval,
                 sleep_time, sort_state, sort_log, sleep_log, cycle_rest>>

\* An exception raised in search_mercari outside the sort and the extraction
\* (which catch their own): a crash of the session is raised again and ends
\* main's loop, after everything else search_mercari returns {}.
SearchExcept ==
  /\ pc \in {"navigate", "block_check", "post_sort", "captcha_check"}
  /\ \E exc \in {"timeout", "webdriver", "crash", "other"} :
       pc' = IF exc = "crash" THEN "critical" ELSE "pass_rest"
  /\ UNCHANGED <<rates, run_count, query_idx, timing, cycle_rest>>

\* The diff, the alerts and the save of the pass, for the time they take.
TimedPassRest ==
  /\ pc = "pass_rest"
  /\ \E duration \in PassRestDurations : clock' = clock + duration
  /\ pc' = "delay"
  /\ UNCHANGED <<JPY_TO_EUR_RATE, RATE_LAST_UPDATED, rate_log, run_count,
                 query_idx, timing, cycle_rest>>

\* if len(SEARCH_QUERIES) > 1: time.sleep(inter_query_delay); then the next
\* query, or the end of the cycle after the last one.
TimedInterQueryDelay ==
  /\ pc = "delay"
  /\ IF Len(SEARCH_QUERIES) > 1
     THEN \E inter_query_delay \in InterQueryDelays :
            /\ clock' = clock + inter_query_delay
            /\ sleep_log' = [kind |-> "inter_query", secs |-> inter_query_delay,
                             after_query |-> query_idx]
     ELSE UNCHANGED <<clock, sleep_log>>
  /\ IF query_idx < Len(SEARCH_QUERIES)
     THEN /\ query_idx' = query_idx + 1
          /\ PassLogsReset
          /\ pc' = "navigate"
     ELSE /\ UNCHANGED <<query_idx, sort_state, checks, sort_log>>
          /\ pc' = "cycle_end"
  /\ UNCHANGED <<JPY_TO_EUR_RATE, RATE_LAST_UPDATED, rate_log, run_count,
                 start_cycle_time, check_interval, sleep_time, cycle_rest>>

\* cycle_duration = time.time() - start_cycle_time; check_interval is drawn;
\* sleep_time is computed and slept; then the loop goes round.
TimedCycleEnd ==
  /\ pc = "cycle_end"
  /\ \E interval \in CheckIntervals :
       /\ check_interval' = interval
       /\ sleep_time' = SleepTime(interval, clock - start_cycle_time)
  /\ clock' = clock + sleep_time'
  /\ sleep_log' = [kind |-> "cycle", secs |-> sleep_time',
                   after_query |-> query_idx]
  /\ pc' = "cycle"
  /\ UNCHANGED <<JPY_TO_EUR_RATE, RATE_LAST_UPDATED, rate_log, run_count,
                 query_idx, start_cycle_time, sort_state, checks, sort_log,
                 cycle_rest>>

CycleNext ==
  \/ TimedCycleStart
  \/ SearchNavigate
  \/ SearchBlockCheck
  \/ SortLookup
  \/ SortSelect
  \/ SortSettle
  \/ SearchPostSort
  \/ SearchCaptchaCheck
  \/ SearchExtract
  \/ SearchExcept
  \/ TimedPassRest
  \/ TimedInterQueryDelay
  \/ TimedCycleEnd

CycleSpec == CycleInit /\ [][CycleNext]_vars

\* The program is sequential: whenever it has a next step it takes it.
CycleFairSpec == CycleSpec /\ WF_vars(CycleNext)

\* ------------------------------------------- one call of send_product_alert
\* The texts are taken by their lengths; a call on telegram_bot is logged with
\* the slice of the text it was given: characters from..to-1.

\* len(query) and len(product['title']) of the alert.
QueryLengths == {3, 4090, 8200}
TitleLengths == {0, 40, 5000}

\* What one call of send_product_alert meets: the lengths of the query and of
\* the title, CONFIG["SEND_DEBUG_MESSAGES"], CONFIG["SEND_ITEM_SCREENSHOTS"],
\* and what the record has to show: a screenshot file, else an image URL, else
\* nothing.
AlertEnvs ==
  [query_len : QueryLengths, title_len : TitleLengths, debug : BOOLEAN,
   shots : BOOLEAN, media : {"screenshot", "image", "none"}]

\* len(message) of send_product_alert: the six lines of the alert, the query
\* and the title among the fixed text and the other fields.
MessageLength(env) == alert_fixed_len + env.query_len + env.title_len

\* len of f"Sending alert for new item {product_id} ('{query}')" and of the
\* other texts send_product_alert logs with the query or the id in them.
LogLength(env) == log_fixed_len + env.query_len

RECURSIVE Chunks(_, _)
\* for i in range(0, len(message), max_len): message[i:i+max_len]
Chunks(i, len) ==
  IF i >= len THEN <<>>
  ELSE <<[from |-> i, to |-> IF i + max_len < len THEN i + max_len ELSE len]>>
       \o Chunks(i + max_len, len)

\* The calls on telegram_bot one log_message(message) makes: none with
\* SEND_DEBUG_MESSAGES off; else the chunks of the message one after the
\* other, up to chunk n when the call with chunk n raises (the except of
\* log_message ends the loop), all of them when none does.
LogCalls(env, len, n) ==
  IF ~env.debug THEN <<>>
  ELSE [k \in 1..n |-> [via |-> "log_message", from |-> Chunks(0, len)[k].from,
                        to |-> Chunks(0, len)[k].to]]

\* How many chunks of a logged text can be given to telegram_bot.
LogChunkCounts(env, len) ==
  IF env.debug THEN 1..Len(Chunks(0, len)) ELSE {0}

\* Everything but the call under way is at rest.
AlertInit ==
  /\ file = NoFile
  /\ temp_file = NoFile
  /\ known_products = InitQueries(<<>>)
  /\ pc = "alert_log"
  /\ driver = "open"
  /\ run_count = 1
  /\ query_idx = 1
  /\ current_products = <<>>
  /\ new_products_for_query = <<>>
  /\ pos = 1
  /\ caller = "loop"
  /\ attempts = <<>>
  /\ since_alert = 0
  /\ last_gap = alert_delay
  /\ alert_count = [qi \in Queries \X Ids |-> 0]
  /\ save_calls = 0
  /\ known_before = known_products
  /\ file_before = file
  /\ save_failures = 0
  /\ search_log = NoSearch
  /\ stop_reason = "none"
  /\ critical_report = "none"
  /\ stop_notice = "none"
  /\ RateInit
  /\ ExtractionIdle
  /\ TimingIdle
  /\ alert_env \in AlertEnvs
  /\ message_len = 0
  /\ transport_calls = <<>>

\* What a call of send_product_alert leaves alone.
alert_rest == <<main_rest, rates, extraction, timing, alert_env>>

\* log_message(f"Sending alert for new item {product_id} ('{query}')")
AlertLog ==
  /\ pc = "alert_log"
  /\ \E n \in LogChunkCounts(alert_env, LogLength(alert_env)) :
       transport_calls' =
         transport_calls \o LogCalls(alert_env, LogLength(alert_env), n)
  /\ pc' = "alert_text"
  /\ UNCHANGED <<message_len, alert_rest>>

\* The message is built and given to telegram_bot.send_message in one call;
\* if the call raises, the except of send_product_alert takes over.
AlertText ==
  /\ pc = "alert_text"
  /\ message_len' = MessageLength(alert_env)
  /\ transport_calls' =
       Append(transport_calls, [via |-> "alert", from |-> 0, to |-> message_len'])
  /\ \E outcome \in SendOutcomes :
       pc' = IF outcome = "ok" THEN "alert_media" ELSE "alert_except"
  /\ UNCHANGED alert_rest

\* if CONFIG.get("SEND_ITEM_SCREENSHOTS"): the screenshot is sent as a photo
\* (its own except logs a failure), else the image URL as a text (a failure
\* goes to the except of send_product_alert); every branch logs one text.
AlertMedia ==
  /\ pc = "alert_media"
  /\ \E n \in LogChunkCounts(alert_env, LogLength(alert_env)), raised \in BOOLEAN :
       LET logged == LogCalls(alert_env, LogLength(alert_env), n) IN
       IF alert_env.shots /\ alert_env.media = "screenshot"
       THEN /\ transport_calls' =
                 (transport_calls \o logged)
                 \o <<[via |-> "photo", from |-> 0, to |-> 0]>>
                 \o (IF raised THEN logged ELSE <<>>)
            /\ pc' = "alert_done"
       ELSE IF alert_env.shots /\ alert_env.media = "image"
       THEN /\ transport_calls' =
                 (transport_calls \o logged)
                 \o <<[via |-> "image_url", from |-> 0, to |-> image_url_len]>>
            /\ pc' = IF raised THEN "alert_except" ELSE "alert_done"
       ELSE /\ transport_calls' = transport_calls \o logged
            /\ pc' = "alert_done"
  /\ UNCHANGED <<message_len, alert_rest>>

\* except Exception as e: log_message(...); the function returns.
AlertExcept ==
  /\ pc = "alert_except"
  /\ \E n \in LogChunkCounts(alert_env, LogLength(alert_env)) :
       transport_calls' =
         transport_calls \o LogCalls(alert_env, LogLength(alert_env), n)
  /\ pc' = "alert_done"
  /\ UNCHANGED <<message_len, alert_rest>>

AlertNext == AlertLog \/ AlertText \/ AlertMedia \/ AlertExcept

AlertSpec == AlertInit /\ [][AlertNext]_vars

\* ------------------------------------------------------------ properties
AttemptedIds == {attempts[i].id : i \in DOMAIN attempts}

\* The query pass is between its diff and the end of its alert loop.
InAlertLoop == pc \in {"pause", "send", "commit"}

\* The alert loop of the pass is over (or there was nothing new): control is
\* in the pass's save or just after it.
LoopOver ==
  /\ caller = "loop"
  /\ pc \in {"save_open", "save_write", "save_close", "save_replace", "delay"}

\* The ids of the current extraction that were not keys of the query's entry
\* when the diff was taken.
UnknownAtDiff ==
  {i \in IdsOf(current_products) : i \notin DOMAIN known_before[query]}

\* C1: in every query pass the records dispatched as new are exactly the
\* records of the current extraction whose id was not a key of the known
\* store of that query when the diff was taken: the diff selects exactly
\* those, the alert loop never alerts another id, and when the loop is over
\* every one of them has been alerted.
C1_DiffExact ==
  /\ (InAlertLoop \/ LoopOver) => IdsOf(new_products_for_query) = UnknownAtDiff
  /\ InAlertLoop => AttemptedIds \subseteq UnknownAtDiff
  /\ LoopOver => AttemptedIds = UnknownAtDiff

\* A pass is over in which a listing was already known (not dispatched) and
\* another one was new (dispatched).
C1_Witness ==
  /\ LoopOver
  /\ AttemptedIds # {}
  /\ IdsOf(current_products) \ AttemptedIds # {}

\* C2: once the dispatch attempt of a new record has returned and the loop
\* has moved on, the record's id is a key of the in-memory store of the query,
\* whatever the outcome of the send (delivered, flood control, other error).
C2_CommittedWhateverOutcome ==
  (InAlertLoop \/ LoopOver) =>
    \A i \in DOMAIN attempts :
      (pc = "commit" /\ i = Len(attempts))
      \/ attempts[i].id \in DOMAIN known_products[query]

\* Both kinds of failed send happened in one pass and both records are stored.
C2_Witness ==
  /\ LoopOver
  /\ \E i, j \in DOMAIN attempts :
       /\ attempts[i].outcome = "flood"
       /\ attempts[j].outcome = "error"
       /\ {attempts[i].id, attempts[j].id} \subseteq DOMAIN known_products[query]

\* C3: a failed send (flood control or any other error) on the k-th new
\* record neither stops the alert loop nor reaches main's critical-error
\* handler: the loop attempts the records in order without skipping one, all
\* N have been attempted when it is over, and the critical-error path is
\* never entered with alerts of the pass under way.
C3_LoopSurvivesFailure ==
  /\ pc \in {"pause", "send"} => Len(attempts) = pos - 1
  /\ pc = "commit" => Len(attempts) = pos
  /\ LoopOver => Len(attempts) = Len(new_products_for_query)
  /\ (pc = "critical" \/ caller = "critical") => attempts = <<>>

\* The first of at least two new records hit flood control and the loop still
\* attempted the rest.
C3_Witness ==
  /\ LoopOver
  /\ Len(attempts) >= 2
  /\ attempts[1].outcome = "flood"
  /\ Len(attempts) = Len(new_products_for_query)

\* C4: for N new records the loop makes exactly N alert attempts, the i-th
\* for the i-th new record, and alert_delay seconds are slept before each of
\* them, so two consecutive alerts are never closer than alert_delay.
C4_OnePacedAlertPerRecord ==
  /\ (InAlertLoop \/ LoopOver) =>
       /\ Len(attempts) <= Len(new_products_for_query)
       /\ \A i \in DOMAIN attempts : attempts[i].id = new_products_for_query[i].id
  /\ LoopOver => Len(attempts) = Len(new_products_for_query)
  /\ pc = "send" => since_alert >= alert_delay
  /\ last_gap >= alert_delay

\* Two alerts were sent in one pass, the second alert_delay after the first.
C4_Witness ==
  /\ pc = "commit"
  /\ Len(attempts) = 2
  /\ last_gap = alert_delay

\* C5: in every cycle save_known_products is called once after the diff and
\* alerts of each query and before the next query's search starts, also when
\* the extraction was empty or held nothing new; it is never put off to the
\* end of the cycle.
C5_SaveAfterEveryQuery ==
  caller = "loop" =>
    /\ pc \in {"search", "diff", "pause", "send", "commit", "save_open"}
         => save_calls = query_idx - 1
    /\ pc \in {"save_write", "save_close", "save_replace", "delay"}
         => save_calls = query_idx
    /\ pc = "cycle_end" => save_calls = Len(SEARCH_QUERIES)

\* The first query's extraction was empty, its save was made all the same, and
\* the second query has not started.
C5_Witness ==
  /\ pc = "delay"
  /\ query_idx = 1
  /\ current_products = <<>>
  /\ save_calls = 1
  /\ save_failures = 0

\* Id i of query q is in the persisted store.
Persisted(q, i) ==
  /\ file.exists
  /\ file.written = "complete"
  /\ q \in DOMAIN file.data
  /\ i \in DOMAIN file.data[q]

\* The <<query, id>> pairs held in memory and missing from the persisted store.
Unsaved ==
  {qi \in Queries \X Ids :
     /\ qi[1] \in DOMAIN known_products
     /\ qi[2] \in DOMAIN known_products[qi[1]]
     /\ ~Persisted(qi[1], qi[2])}

\* C6: at every point of execution the ids present in the in-memory store and
\* absent from the persisted store all belong to the one query being
\* processed, so that a crash loses the new detections of at most one query.
C6_UnsavedOnlyCurrentQuery ==
  \A qi \in Unsaved : qi[1] = query

\* C7: whatever the step at which a save is interrupted, the store file holds
\* a complete text, and it is either the store it held when the save began or
\* the store being saved: the serialized store is written to the staging file
\* only and reaches the store file in the single step of the replace.
C7_SaveAtomic ==
  /\ file.exists => file.written = "complete"
  /\ \/ file = file_before
     \/ file = CompleteFile(products_to_save(known_products))

\* The process was interrupted in the middle of a save: the staging file is
\* partial, the store file still holds the previous store, which is not the
\* store being saved.
C7_Witness ==
  /\ pc = "interrupted"
  /\ temp_file.exists
  /\ temp_file.written = "partial"
  /\ file.exists
  /\ file = file_before
  /\ file # CompleteFile(products_to_save(known_products))

\* C8: across the cycles of one process an id that is in the known store of a
\* query stays there with the record it was stored with: no step removes an
\* id or changes a stored record, also when the listing has left the feed or
\* is extracted again with other field values.
C8_AppendOnly ==
  [][\A q \in DOMAIN known_products :
       /\ q \in DOMAIN known_products'
       /\ \A i \in DOMAIN known_products[q] :
            /\ i \in DOMAIN known_products'[q]
            /\ known_products'[q][i] = known_products[q][i]]_vars

\* A pass is over in which one stored listing was extracted again with other
\* field values, while another stored listing was no longer in the feed.
C8_Witness ==
  /\ pc = "delay"
  /\ \E n \in DOMAIN current_products :
       /\ current_products[n].id \in DOMAIN known_before[query]
       /\ current_products[n].product # known_products[query][current_products[n].id]
  /\ \E i \in DOMAIN known_before[query] : i \notin IdsOf(current_products)

\* C9: when a query pass is over, the diff of the same current extraction
\* against the store is empty, whatever sends failed; and no <<query, id>> is
\* presented for alerting more than once in the life of the process.
C9_DiffIdempotent ==
  /\ LoopOver =>
       NewProducts(current_products, KnownIds(known_products, query)) = <<>>
  /\ \A qi \in Queries \X Ids : alert_count[qi] <= 1

\* A pass with a failed send is over, in a later cycle than the first.
C9_Witness ==
  /\ pc = "delay"
  /\ run_count = 2
  /\ \E i \in DOMAIN attempts : attempts[i].outcome # "ok"
  /\ \E qi \in Queries \X Ids : alert_count[qi] = 1 /\ qi[1] = query

\* C10: the diff leaves the store as it found it, and afterwards the store
\* differs from what the diff saw only by ids of this query whose alert has
\* been attempted: no new id of the pass is in the store before its alert.
C10_CommitOnlyAfterAttempt ==
  (InAlertLoop \/ LoopOver) =>
    /\ DOMAIN known_products = DOMAIN known_before
    /\ \A q \in DOMAIN known_products :
         /\ DOMAIN known_before[q] \subseteq DOMAIN known_products[q]
         /\ \A i \in DOMAIN known_products[q] :
              \/ i \in DOMAIN known_before[q] /\ known_products[q][i] = known_before[q][i]
              \/ q = query /\ i \in AttemptedIds

\* The first new record is committed and the second, whose alert is about to
\* be sent, is not yet in the store.
C10_Witness ==
  /\ pc = "send"
  /\ pos = 2
  /\ new_products_for_query[1].id \in DOMAIN known_products[query]
  /\ new_products_for_query[2].id \notin DOMAIN known_products[query]

\* The pass whose search is logged alerted nothing and left the store as its
\* diff found it.
PassLeftNoTrace ==
  /\ current_products = <<>>
  /\ pc \notin {"pause", "send", "commit"}
  /\ attempts = <<>>
  /\ known_products = known_before

\* C11: when the page of a query is found to be a block page or to hold a
\* CAPTCHA, search_mercari returns an empty result without calling the
\* extraction, no alert is sent in that pass and the known store is left as
\* it was.
C11_AnomalyPageYieldsNothing ==
  search_log.outcome \in {"blocked", "captcha"} =>
    /\ ~search_log.extractor_invoked
    /\ PassLeftNoTrace

\* The pass of a query with stored ids met a block page and is over, the store
\* as before.
C11_Witness ==
  /\ pc = "delay"
  /\ search_log.outcome = "blocked"
  /\ DOMAIN known_products[query] # {}
  /\ known_products = known_before

\* C12: the extraction is called in a pass only when the sort was applied in
\* that pass; when the sort fails the extraction is not called, the result is
\* empty, nothing is alerted and the store is left as it was.
C12_ExtractionOnlyAfterSort ==
  /\ search_log.extractor_invoked => search_log.sort = "applied"
  /\ search_log.sort = "failed" =>
       /\ search_log.outcome = "sort_failed"
       /\ ~search_log.extractor_invoked
       /\ PassLeftNoTrace

\* The sort failed in the pass of a query with stored ids; the pass is over.
C12_Witness ==
  /\ pc = "delay"
  /\ search_log.sort = "failed"
  /\ ~search_log.crashed
  /\ DOMAIN known_products[query] # {}

\* C13: a crashed or disconnected session, at whatever stage of the pass it
\* shows, is re-raised by search_mercari and reaches main's critical-error
\* handler; the pass does not go on with an empty or partial result.
C13_CrashReraised ==
  search_log.crashed =>
    /\ search_log.outcome = "raised"
    /\ pc \notin {"diff", "pause", "send", "commit", "delay"}

\* C14: once an exception has reached main's except Exception, no query is
\* searched, diffed or alerted any more, the report to the operator has been
\* attempted, save_known_products is called whether the report was sent or
\* failed (so that, unless a save itself failed, the store file holds the
\* in-memory store when the handler is left), and the process stops with the
\* browser closed.
C14_CriticalPersistsAndStops ==
  /\ caller = "critical" =>
       pc \in {"save_open", "save_write", "save_close", "save_replace",
               "finally", "stopped"}
  /\ stop_reason = "Exception" =>
       /\ caller = "critical"
       /\ critical_report \in {"sent", "failed"}
  /\ (stop_reason = "Exception" /\ pc \in {"finally", "stopped"}
        /\ save_failures = 0) =>
       file = CompleteFile(products_to_save(known_products))
  /\ pc = "stopped" => driver # "open"

\* The process stopped on a critical error in its second cycle; the report to
\* the operator failed and the store, with an id in it, was saved all the same.
C14_Witness ==
  /\ pc = "stopped"
  /\ stop_reason = "Exception"
  /\ critical_report = "failed"
  /\ run_count = 2
  /\ save_failures = 0
  /\ \E q \in Queries : DOMAIN known_products[q] # {}
  /\ file = CompleteFile(products_to_save(known_products))

\* C15: when Ctrl+C stops the process, wherever the loop was, the store file
\* holds every id of the in-memory store by the time the process has stopped
\* (no save having failed).
C15_InterruptPersists ==
  (pc = "stopped" /\ stop_reason = "KeyboardInterrupt" /\ save_failures = 0) =>
    Unsaved = {}

\* The ways a search_mercari call ends that abort the pass of one query only.
RecoverableOutcomes ==
  {"blocked", "captcha", "sort_failed", "timeout", "browser_error", "unexpected"}

\* The positions inside save_known_products.
SavePcs == {"save_open", "save_write", "save_close", "save_replace"}

\* C16: a block page, a CAPTCHA, a failed sort, a timeout or a browser error
\* other than a crash aborts the pass of that query only: the result is empty,
\* the critical-error handler is not entered, the store is saved, the next
\* configured query follows (or the end of the cycle after the last one), and
\* the end of a cycle is followed by the start of the next.
C16_FailedPassAbortsOnlyItself ==
  [][/\ search_log.outcome \in RecoverableOutcomes =>
          /\ current_products = <<>>
          /\ pc # "critical" /\ caller = "loop"
          /\ stop_reason' = "none" =>
               /\ pc = "diff" => pc' = "save_open"
               /\ pc \in SavePcs => pc' \in SavePcs \cup {"delay"}
               /\ pc = "delay" =>
                    /\ save_calls = query_idx
                    /\ run_count' = run_count
                    /\ IF query_idx < Len(SEARCH_QUERIES)
                       THEN pc' = "search" /\ query_idx' = query_idx + 1
                       ELSE pc' = "cycle_end"
     /\ (pc = "cycle_end" /\ stop_reason' = "none") => pc' = "cycle"
     /\ (pc = "cycle" /\ stop_reason' = "none") =>
          pc' = "search" /\ query_idx' = 1 /\ run_count' = run_count + 1]_vars

\* The search of the first query timed out; its pass is over with the store
\* saved, and the second query is next.
C16_Witness ==
  /\ pc = "delay"
  /\ search_log.outcome = "timeout"
  /\ query_idx = 1
  /\ save_calls = 1
  /\ file = CompleteFile(products_to_save(known_products))

\* ---------------------------------------------------------------- C17
\* The records the program holds: those of the extraction under way, of the
\* result handed to main, of the diff, and of the store entry of the query.
HeldRecords ==
  {products[n] : n \in DOMAIN products}
  \cup {current_products[n] : n \in DOMAIN current_products}
  \cup {new_products_for_query[n] : n \in DOMAIN new_products_for_query}
  \cup {[id |-> id, product |-> known_products[query][id]] :
          id \in DOMAIN known_products[query]}

\* No field of the record holds the placeholder of its initialisation.
NonPlaceholder(e) ==
  /\ e.id # NoId
  /\ e.product.link # NoLink
  /\ e.product.title # TitleNotFound
  /\ e.product.price_jpy # PriceNotFound

\* C17: every record of an extraction result, and so every record alerted or
\* stored, has an id, a link, a title and a native price that are not
\* placeholders, and an element whose title strategies (the text of the title
\* span, then the label) all failed to yield a value has produced no record.
C17_RecordsHaveValues ==
  /\ \A e \in HeldRecords : NonPlaceholder(e)
  /\ item_log.outcome = "stored" => item_log.title_from # "none"

\* ---------------------------------------------------------------- C18
\* The step of the loop body that makes the white background check.
FilterStep == pc = "item_filter" /\ pc' # "item_filter"

\* The classifier counted a fraction of light border pixels at or above the
\* border threshold.
CountedLight(log) ==
  log.white_count * 100 >= WHITE_BG_BORDER_THRESHOLD * BorderPixels

\* C18: with the filter enabled and an image URL present, an element whose
\* image has a fraction of light border pixels at or above the border threshold
\* is excluded from the result (nothing is stored for it, and nothing outside
\* the result is alerted) while it is counted as processed; with the filter
\* disabled or no image URL the classifier is not consulted, and an element not
\* classified light goes on to the rest of the loop body with its fields
\* untouched.
C18_LightBackgroundExcluded ==
  [][ /\ FilterStep =>
           LET consulted == filter_enabled /\ item_image # ""
               light == consulted /\ CountedLight(item_log')
           IN  /\ item_log'.bg_checked = consulted
               /\ light =>
                    /\ item_log'.outcome = "white_bg"
                    /\ pc' = "item_loop"
                    /\ products' = products
                    /\ stored_count' = stored_count
                    /\ processed_count' = processed_count + 1
               /\ ~light =>
                    /\ pc' = "item_screenshot"
                    /\ UNCHANGED <<tally, product_id, link, title, price, item_image>>
      /\ \A n \in DOMAIN attempts' : attempts'[n].id \in IdsOf(current_products')
    ]_vars

\* An element with every essential field and an image 97% light at its border
\* was skipped by the enabled filter: counted, and nothing stored.
C18_Witness ==
  /\ filter_enabled
  /\ item_log.outcome = "white_bg"
  /\ item_log.essential
  /\ item_log.white_count = 97
  /\ processed_count = 1
  /\ stored_count = 0
  /\ products = <<>>

\* ---------------------------------------------------------------- C19
\* The time lies in the window of the last fetch that gave a rate: T <= now and
\* now < T + ttl.
InRateWindow ==
  /\ rate_log.fetched_at >= 0
  /\ clock < rate_log.fetched_at + CURRENCY_RATE_UPDATE_INTERVAL_SECONDS

\* C19: a request for the rate made while the time is before T + ttl, T being
\* the time of the last successful fetch, is answered with that rate without
\* the provider being asked; a request made at any other time asks the provider
\* exactly once. So a successful refetch after T + ttl opens a new window in
\* which no request asks the provider.
C19_RateCachedForTtl ==
  [][ clock' = clock =>
        IF InRateWindow
        THEN /\ rate_log'.fetches = rate_log.fetches
             /\ ~rate_log'.fetched
             /\ rate_log'.result = JPY_TO_EUR_RATE
             /\ rate_log'.result # None
             /\ UNCHANGED <<JPY_TO_EUR_RATE, RATE_LAST_UPDATED>>
        ELSE /\ rate_log'.fetches = rate_log.fetches + 1
             /\ rate_log'.fetched
    ]_vars

\* The provider gave a rate twice, the second time after the first window had
\* run out, and the last request, inside the new window, was answered from the
\* cache.
C19_Witness ==
  /\ rate_log.successes = 2
  /\ rate_log.fetches = 2
  /\ rate_log.fetched_at >= CURRENCY_RATE_UPDATE_INTERVAL_SECONDS
  /\ clock > rate_log.fetched_at
  /\ InRateWindow
  /\ ~rate_log.fetched
  /\ rate_log.result = 62

\* ---------------------------------------------------------------- C20
\* The step of the loop body that stores the record or skips the storage.
StoreStep == pc = "item_store" /\ pc' # "item_store"

\* No euro price can be computed from the native price p with the rate r:
\* there is no rate, or what is left of p without the characters that are
\* neither digits nor dots is not a number.
EuroUnavailable(p, r) ==
  \/ r = None
  \/ CleanPrice(p) = <<>>
  \/ ~FloatParses(CleanPrice(p))

\* C20: the conversion of the price never fails a record. An element with the
\* essential fields is stored whatever the conversion gives, its euro price
\* being an "unavailable" sentinel exactly when there is no rate or the native
\* price does not parse; and once the alert loop of the pass is over, every
\* record of the result, its euro price a sentinel or not, has been alerted
\* and is in the store.
C20_ConversionNeverFailsRecord ==
  [][ /\ (StoreStep /\ EssentialInfoFound(product_id, link, title, price)) =>
           /\ stored_count' = stored_count + 1
           /\ product_id \in IdsOf(products')
           /\ LET rec == EntryOf(products', product_id)
              IN  /\ rec.title = title
                  /\ rec.price_jpy = price
                  /\ rec.link = link
                  /\ rec.price_euro.na \in {"", "Rate Error", "Parse Error", "Conv. Error"}
                  /\ rec.price_euro.na # "" <=> EuroUnavailable(price, rate_log'.result)
      /\ pc' = "save_open" =>
           \A n \in DOMAIN current_products' :
             /\ current_products'[n].id \in AttemptedIds'
             /\ current_products'[n].id \in DOMAIN known_products'[query']
             /\ known_products'[query'][current_products'[n].id] = current_products'[n].product
    ]_vars

\* Two records were extracted, one with no rate to be had and one whose price
\* holds no digit; both were alerted and both are in the store with their
\* sentinel.
C20_Witness ==
  /\ pc = "save_open"
  /\ \E a, b \in DOMAIN known_products[query] :
       /\ known_products[query][a].price_euro = EuroNA("Rate Error")
       /\ known_products[query][b].price_euro = EuroNA("Parse Error")
       /\ {a, b} \subseteq AttemptedIds
       /\ {a, b} \subseteq IdsOf(current_products)

\* ---------------------------------------------------------------- C21
\* The step that ends a cycle: it draws the interval, computes the sleep and
\* sleeps.
CycleEndStep == pc = "cycle_end" /\ pc' # "cycle_end"

\* C21: at the end of a cycle the sleep is the drawn interval less the duration
\* of the cycle, replaced by the fixed 10 seconds when that is negative; it is
\* never negative, the time advances by exactly that much before the loop
\* goes round, and a cycle starts only from there.
C21_CycleSleep ==
  [][ /\ CycleEndStep =>
           LET cycle_duration == clock - start_cycle_time
               computed == check_interval' - cycle_duration
           IN  /\ check_interval' \in CheckIntervals
               /\ sleep_time' = IF computed < 0 THEN overrun_sleep_time ELSE computed
               /\ sleep_time' >= 0
               /\ clock' = clock + sleep_time'
               /\ pc' = "cycle"
               /\ run_count' = run_count
      /\ (pc' = "cycle" /\ pc # "cycle") => CycleEndStep
    ]_vars

\* A cycle took longer than the interval drawn at its end, and the fixed sleep
\* was slept.
C21_Witness ==
  /\ pc = "cycle"
  /\ run_count = 1
  /\ sleep_log.kind = "cycle"
  /\ sleep_time = overrun_sleep_time
  /\ (clock - sleep_time) - start_cycle_time > check_interval

\* ---------------------------------------------------------------- C22
\* C22: in every pass the sort leaves NotApplied only on a page on which both
\* the block checks and the CAPTCHA check have been made (and have found
\* nothing, or search_mercari would have returned).
C22_ClassifiedBeforeSort ==
  sort_state # "NotApplied" => checks.block /\ checks.captcha

\* ---------------------------------------------------------------- C23
\* The positions of main inside apply_sort_by_newest_mercari.
SortPcs == {"sort_lookup", "sort_select", "sort_settle"}

\* A new pass begins: the next query, or the next cycle.
NewPass == query_idx' # query_idx \/ run_count' # run_count

\* C23: within a pass the sort goes NotApplied -> Applying -> Applied | Failed
\* and no other way. It is Applied only once the option was selected and the
\* settle delay was slept; leaving the function from the lookup or the
\* selection, whatever was raised, makes it Failed; Applied and Failed stay
\* until the next pass begins; and a sort that is Applying always becomes
\* Applied or Failed.
C23_SortVerifier ==
  /\ [][ /\ sort_state' # sort_state =>
              \/ sort_state = "NotApplied" /\ sort_state' = "Applying" /\ ~NewPass
              \/ sort_state = "Applying" /\ sort_state' = "Failed" /\ ~NewPass
              \/ /\ sort_state = "Applying" /\ sort_state' = "Applied" /\ ~NewPass
                 /\ sort_log.selected
                 /\ (clock' - clock) \in SettleDelays
              \/ sort_state' = "NotApplied" /\ NewPass
         /\ (pc \in SortPcs /\ pc' \notin SortPcs /\ pc' # "post_sort") =>
              sort_state' = "Failed" /\ pc' = "pass_rest"
         /\ (pc \in SortPcs) = (sort_state = "Applying")
       ]_vars
  /\ [](sort_state = "Applied" =>
          sort_log.lookup /\ sort_log.selected /\ sort_log.settled)
  /\ (sort_state = "Applying") ~> (sort_state \in {"Applied", "Failed"})

\* In the pass of the second query the sort was applied: the option selected,
\* the settle delay slept.
C23_Witness ==
  /\ query_idx = 2
  /\ pc = "post_sort"
  /\ sort_state = "Applied"
  /\ sort_log.selected
  /\ sort_log.settled

\* ---------------------------------------------------------------- C24
\* The step of the loop body that looks up the link and the id, nothing being
\* raised by the element itself.
LinkStep == pc = "item_link" /\ pc' # "item_link" /\ item_log'.outcome # "raised"

\* C24: the lookup of the link and the id never ends the handling of an
\* element: the element gets an id (the one at the end of its link, or the
\* fallback made of the hash of the link and the position) and goes on to the
\* title, price and image strategies.
C24_LinkFailureNeverAborts ==
  [][ LinkStep => pc' = "item_title" /\ product_id' # NoId ]_vars

\* ---------------------------------------------------------------- C25
\* The loop body is left with the element discarded for want of an essential
\* field: no link or id, or no title or price at the store test.
DiscardStep ==
  /\ pc # "item_loop"
  /\ pc' = "item_loop"
  /\ item_log'.outcome \in {"no_link", "invalid"}

\* C25: an element discarded for want of an essential field, a missing link or
\* id included, is counted as processed and nothing is stored for it; so the
\* processed count grows by one with every stored and every discarded
\* element, and stored count <= processed count <= elements taken.
C25_DiscardedCountedProcessed ==
  [][ /\ DiscardStep =>
           /\ processed_count' = processed_count + 1
           /\ stored_count' = stored_count
           /\ products' = products
      /\ stored_count' <= processed_count'
      /\ processed_count' <= item_i'
    ]_vars

\* ---------------------------------------------------------------- C26
\* C26: the inter-query delay is slept only after a query that is not the last
\* of the cycle; after the last query the cycle goes to its end without it.
C26_DelayOnlyBetweenQueries ==
  sleep_log.kind = "inter_query" => sleep_log.after_query < Len(SEARCH_QUERIES)

\* ---------------------------------------------------------------- C27
\* The calls that carried the text of the product alert.
AlertCalls == SelectSeq(transport_calls, LAMBDA c : c.via = "alert")

\* The calls carry the text of length len in order and whole: the first slice
\* starts the text, each next one starts where the last ended, the last ends
\* the text.
InOrderAndWhole(calls, len) ==
  /\ calls # <<>>
  /\ calls[1].from = 0
  /\ calls[Len(calls)].to = len
  /\ \A k \in 1..(Len(calls) - 1) : calls[k + 1].from = calls[k].to

\* C27: no call gives telegram_bot more than max_len characters of a product
\* alert, and once the alert text has gone out its calls carried it in order
\* and whole, in several calls when it is longer than max_len.
C27_AlertTextSplit ==
  /\ \A k \in DOMAIN AlertCalls : AlertCalls[k].to - AlertCalls[k].from <= max_len
  /\ pc = "alert_media" => InOrderAndWhole(AlertCalls, message_len)

\* ---------------------------------------------------------------- C28
\* What keeps the classifier from a verdict on the pixels: the download times
\* out or fails, the content is not an image, the image does not decode.
ClassifierErrors == {"timeout", "request_error", "not_image", "undecodable"}

\* C28: when the classifier is consulted and the download fails or times out,
\* the content type is not an image or the decoding raises, the image is not
\* taken for light: the element is not skipped, nothing of it is changed or
\* counted, and it goes on to the screenshot and the store.
C28_ClassifierFailsOpen ==
  [][ (FilterStep /\ item_log'.bg_checked /\ item_log'.fetch \in ClassifierErrors) =>
        /\ pc' = "item_screenshot"
        /\ ~is_white_bg'
        /\ item_log'.outcome = "none"
        /\ UNCHANGED <<tally, product_id, link, title, price, item_image>>
    ]_vars

\* The download of the image of an element with every essential field timed
\* out, and the element is on its way to the store.
C28_Witness ==
  /\ pc = "item_screenshot"
  /\ filter_enabled
  /\ item_log.bg_checked
  /\ item_log.fetch = "timeout"
  /\ EssentialInfoFound(product_id, link, title, price)

\* ---------------------------------------------------------------- C29
\* C29: a query pass changes only the store entry of its query.  While the
\* pass runs, the entry of every other query is what it was when the diff was
\* taken.  When the alert loop is over, the keys of the query's entry are the
\* keys it had at the diff united with the ids of the current extraction, the
\* records it had are kept and each new id holds the record just extracted.
\* After a save that did not fail, the store file holds the same keys under
\* the query.
C29_PassChangesOnlyItsQuery ==
  /\ (InAlertLoop \/ LoopOver) =>
       /\ DOMAIN known_products = DOMAIN known_before
       /\ \A q \in DOMAIN known_products :
            q # query => known_products[q] = known_before[q]
  /\ LoopOver =>
       /\ DOMAIN known_products[query] =
            (DOMAIN known_before[query]) \cup IdsOf(current_products)
       /\ \A i \in DOMAIN known_before[query] :
            known_products[query][i] = known_before[query][i]
       /\ \A n \in DOMAIN current_products :
            current_products[n].id \notin DOMAIN known_before[query] =>
              known_products[query][current_products[n].id] = current_products[n].product
  /\ (caller = "loop" /\ pc = "delay" /\ save_failures = 0) =>
       /\ file.exists
       /\ file.written = "complete"
       /\ DOMAIN file.data[query] = DOMAIN known_products[query]

\* The pass of the second query started from an empty entry, extracted as many
\* records as a listing holds, and after its save exactly those are under the
\* query in memory and in the store file, while the first query holds records
\* of the same ids.
C29_Witness ==
  /\ caller = "loop"
  /\ pc = "delay"
  /\ query_idx = 2
  /\ save_failures = 0
  /\ known_before[query] = <<>>
  /\ Len(current_products) = MaxId
  /\ DOMAIN known_products[query] = IdsOf(current_products)
  /\ DOMAIN file.data[query] = IdsOf(current_products)
  /\ DOMAIN known_products[SEARCH_QUERIES[1]] = IdsOf(current_products)

\* ---------------------------------------------------------------- C30
\* The records of a file, as <<query, id>> pairs.
RecordsOf(f) ==
  {qi \in (DOMAIN f.data) \X Ids : qi[2] \in DOMAIN f.data[qi[1]]}

\* No record of the file has a screenshot_path field.
NoCapturePath(f) ==
  \A qi \in RecordsOf(f) : "screenshot_path" \notin DOMAIN f.data[qi[1]][qi[2]]

\* Control is inside save_known_products.
InSave == pc \in {"save_open", "save_write", "save_close", "save_replace"}

\* C30: no record of the store file, nor of the staging file it is written
\* through, has a screenshot_path field, whatever the query and the id; and
\* no step of save_known_products changes the in-memory store, whose records
\* keep their screenshot_path.
C30_SavedWithoutCapturePath ==
  /\ [](NoCapturePath(file) /\ NoCapturePath(temp_file))
  /\ [][InSave => known_products' = known_products]_vars

\* A save has replaced the store file: a record of the query is in it without
\* the field, and the same record in memory still has the path of its
\* screenshot.
C30_Witness ==
  /\ caller = "loop"
  /\ pc = "delay"
  /\ file.written = "complete"
  /\ query \in DOMAIN file.data
  /\ \E i \in DOMAIN file.data[query] :
       /\ i \in DOMAIN known_products[query]
       /\ "screenshot_path" \in DOMAIN known_products[query][i]
       /\ known_products[query][i].screenshot_path = "item.png"
       /\ "screenshot_path" \notin DOMAIN file.data[query][i]
       /\ file.data[query][i] = StripProduct(known_products[query][i])

\* ---------------------------------------------------------------- C31
\* The step is a call of get_jpy_to_eur_rate (time stands still in it).
RateStep == rate_log' # rate_log \/ JPY_TO_EUR_RATE' # JPY_TO_EUR_RATE
            \/ RATE_LAST_UPDATED' # RATE_LAST_UPDATED

\* The call asked the provider and got a rate / got none.
FetchSucceeds ==
  /\ rate_log'.fetches = rate_log.fetches + 1
  /\ rate_log'.successes = rate_log.successes + 1
FetchFails ==
  /\ rate_log'.fetches = rate_log.fetches + 1
  /\ rate_log'.successes = rate_log.successes

\* C31: JPY_TO_EUR_RATE and RATE_LAST_UPDATED change only in a call whose
\* fetch gave a rate, and then both are assigned: the rate fetched and the time
\* of the call.  A fetch that fails or gives no rate leaves both as they were
\* and the call returns the old rate (None when none was ever fetched); the
\* cache is then still not fresh, it stays so while time passes, and a call
\* on a cache that is not fresh asks the provider: every later call fetches
\* again until a fetch gives a rate.
C31_RateAndStampTogether ==
  [][ /\ (JPY_TO_EUR_RATE' # JPY_TO_EUR_RATE \/ RATE_LAST_UPDATED' # RATE_LAST_UPDATED)
         => FetchSucceeds
      /\ FetchSucceeds =>
           /\ JPY_TO_EUR_RATE' # None
           /\ JPY_TO_EUR_RATE' = rate_log'.result
           /\ RATE_LAST_UPDATED' = clock
      /\ FetchFails =>
           /\ UNCHANGED <<JPY_TO_EUR_RATE, RATE_LAST_UPDATED>>
           /\ rate_log'.result = JPY_TO_EUR_RATE
           /\ ~CacheFresh(JPY_TO_EUR_RATE', RATE_LAST_UPDATED', clock')
      /\ (~CacheFresh(JPY_TO_EUR_RATE, RATE_LAST_UPDATED, clock) /\ ~FetchSucceeds)
           => ~CacheFresh(JPY_TO_EUR_RATE', RATE_LAST_UPDATED', clock')
      /\ (~CacheFresh(JPY_TO_EUR_RATE, RATE_LAST_UPDATED, clock) /\ RateStep)
           => rate_log'.fetched
    ]_vars

\* A rate was fetched once; after it went stale two calls in a row asked the
\* provider and got none: the last one returned the stale rate, and the rate
\* and its time are those of the one fetch that gave a rate.
C31_Witness ==
  /\ rate_log.successes = 1
  /\ rate_log.fetches = 3
  /\ rate_log.fetched
  /\ rate_log.result = 62
  /\ JPY_TO_EUR_RATE = 62
  /\ RATE_LAST_UPDATED = rate_log.fetched_at
  /\ clock - RATE_LAST_UPDATED >= CURRENCY_RATE_UPDATE_INTERVAL_SECONDS

\* ---------------------------------------------------------------- C32
\* The positions of main once its try block has been left.
ExitPcs == {"interrupted", "critical", "finally", "stopped"}

\* C32: however main leaves its try block (Ctrl+C, a critical error, an
\* exception raised by a handler, such as the interrupt handler's notice that
\* fails to go out), control passes through the finally block: the process has
\* stopped only with the browser closed, if one was started; a started browser
\* is never forgotten; and once it is closed nothing more happens, no query is
\* searched.
C32_SessionReleasedOnExit ==
  /\ [](pc = "stopped" => driver \in {"None", "quit"})
  /\ [](driver = "quit" => pc = "stopped")
  /\ [](stop_reason # "none" => (pc \in ExitPcs \/ (caller = "critical" /\ pc \in SavePcs)))
  /\ [][ /\ driver = "open" => driver' \in {"open", "quit"}
         /\ driver # "quit"
         /\ pc' = "stopped" => pc = "finally"
     ]_vars

\* Ctrl+C stopped the process in its second cycle, the notice to the operator
\* failed to go out, and the browser is closed.
C32_Witness ==
  /\ pc = "stopped"
  /\ stop_reason = "KeyboardInterrupt"
  /\ stop_notice = "failed"
  /\ run_count = 2
  /\ driver = "quit"

\* ---------------------------------------------------------------- C33
\* No critical error is ever raised: setup_browser starts a browser and no
\* search_mercari call re-raises.
NoCriticalError == pc # "critical" /\ stop_reason = "none"

\* The search of the i-th configured query is about to be made.
Checking(i) == pc = "search" /\ query_idx = i

\* C33: with no Ctrl+C and no critical error main runs for ever.  Every query
\* pass that starts reaches the delay after its save, every alert loop that
\* starts is left for the save, a cycle goes from each query to the next one
\* in the configured order, starting with the first and ending after the last,
\* and each configured query is searched again and again.
C33_NeverStops ==
  /\ [][ /\ (pc' = "search" /\ pc # "search") =>
             \/ pc = "cycle" /\ query_idx' = 1
             \/ pc = "delay" /\ query_idx' = query_idx + 1
         /\ (pc' = "cycle_end" /\ pc # "cycle_end") =>
             pc = "delay" /\ query_idx = Len(SEARCH_QUERIES)
         /\ (pc' = "cycle" /\ pc # "cycle") => pc \in {"setup", "cycle_end"}
     ]_vars
  /\ []NoCriticalError =>
       /\ \A i \in DOMAIN SEARCH_QUERIES :
            /\ Checking(i) ~> (pc = "delay" /\ query_idx = i)
            /\ []<>Checking(i)
       /\ InAlertLoop ~> LoopOver
       /\ []<>(pc = "cycle_end")

\* The loop is in a cycle after the last one counted, searching the second
\* query, with records under both queries.
C33_Witness ==
  /\ Checking(2)
  /\ run_count = MaxCycles
  /\ save_calls = 1
  /\ stop_reason = "none"
  /\ \A q \in Queries : DOMAIN known_products[q] = Ids
  /\ \E i \in Ids : known_products[query][i].found_time = MaxCycles

====
